---- MODULE Spec2Model ----
(***************************************************************************)
(* Model of the Express/Mongoose backend routes of Codeloop-Compyle:       *)
(* the module routes (routes/modules.js), the notice routes and the        *)
(* department routes (both in routes/notices.js) and the analytics routes, *)
(* and of the AuthProvider of the React frontend (AuthContext.tsx).  The   *)
(* database collections are the state; every route handler is an operator  *)
(* that maps the current collections and a request to the new collections  *)
(* and the response, and an action that applies it.                        *)
(***************************************************************************)
EXTENDS Integers, Sequences, FiniteSets, TLC

\* ------------------------------------------------------------- bounds
MaxModules == 3      \* module documents in the prerequisite-graph runs
MaxPrereqs == 2      \* length of a prerequisites list in a request
MaxOwned == 2        \* module documents in the access-control runs
MaxListed == 2       \* module documents in the list runs
MaxNotices == 2      \* notice documents
MaxDepartments == 3  \* department documents
MaxCycleNodes == 3   \* module documents in the cycle-check runs
MaxItems == 2        \* length of a questionIds or noteIds list in a request
MaxNumbers == 3      \* length of a list passed to calculateMedian
MaxSubmissions == 2  \* AssessmentSubmission documents
MaxCalls == 2        \* calls of the AuthProvider in progress at the same time

\* ------------------------------------------------------------- world
None == "none"       \* null / absent reference

\* an optional request or document field: <<>> is undefined, <<v>> is v
Undefined == <<>>
Some(v) == <<v>>
IsDefined(o) == Len(o) > 0
Val(o) == o[1]

Depts == {"D1", "D2"}
GroupIds == {"g1", "g2"}
QuestionIds == {"q1", "q2"}
NoteIds == {"n1", "n2"}
UserIds == {"admin", "hod1", "t1", "t2", "s1"}
ModuleIds == 1..MaxModules

VARIABLES
    users,        \* User collection: id -> [role, department, groups]
    departments,  \* Department collection: id -> [name, code, hod, isActive]
    groups,       \* Group collection: id -> [department, teacher, isActive]
    questions,    \* Question collection: id -> [department, isActive]
    notes,        \* Note collection: id -> [department, isActive]
    assessed,     \* ids of modules referenced by an active Assessment
    modules,      \* Module collection: sequence of documents, _id = index
    notices,      \* Notice collection: sequence of documents
    now,          \* the server clock (new Date())
    resp,         \* the response to the last request
    submissions,  \* AssessmentSubmission collection: sequence of documents
    numbers,      \* the caller's array passed to calculateMedian
    state,        \* the AuthState of the AuthProvider's reducer
    localStorage, \* the browser's localStorage: the three keys of the session
    calls         \* the asynchronous calls of the AuthProvider in progress

vars == <<users, departments, groups, questions, notes, assessed, modules,
          notices, now, resp, submissions, numbers, state, localStorage, calls>>
world == <<users, departments, groups, questions, notes, assessed>>
statistics == <<submissions, numbers>>
frontend == <<state, localStorage, calls>>

\* ------------------------------------------------------------- helpers
Range(s) == {s[i] : i \in 1..Len(s)}

SeqsUpTo(S, n) == UNION {[1..k -> S] : k \in 0..n}

\* String.prototype.trim on a text (a sequence of one-character strings)
RECURSIVE TrimLeft(_), TrimRight(_)
TrimLeft(t) == IF t # <<>> /\ Head(t) = " " THEN TrimLeft(Tail(t)) ELSE t
TrimRight(t) ==
    IF t # <<>> /\ t[Len(t)] = " " THEN TrimRight(SubSeq(t, 1, Len(t) - 1)) ELSE t
Trim(t) == TrimRight(TrimLeft(t))

\* String.prototype.toLowerCase
LowerChar(c) == IF c = "A" THEN "a" ELSE IF c = "B" THEN "b" ELSE c
ToLowerCase(t) == [i \in 1..Len(t) |-> LowerChar(t[i])]

\* String.prototype.toUpperCase
UpperChar(c) ==
    IF c = "c" THEN "C" ELSE IF c = "s" THEN "S" ELSE IF c = "e" THEN "E" ELSE c
ToUpperCase(t) == [i \in 1..Len(t) |-> UpperChar(t[i])]

\* { $regex: pat, $options: 'i' } with a pattern of literal characters
RegexMatchI(text, pat) ==
    \E i \in 0..(Len(text) - Len(pat)) :
        \A j \in 1..Len(pat) : LowerChar(text[i + j]) = LowerChar(pat[j])

Response(op, status, error, data) ==
    [op |-> op, status |-> status, error |-> error, details |-> "", data |-> data,
     total |-> 0, markedCount |-> 0, medianScore |-> Undefined,
     scoreDistribution |-> <<>>]

\* the answer of a handler whose express-validator chain reported msg
ValidationFailed(op, msg) ==
    [Response(op, 400, "Validation failed", {}) EXCEPT !.details = msg]

Result(ms, r) == [modules |-> ms, resp |-> r]

\* ------------------------------------------------------------- modules.js
\* The requests are those that pass the express-validator chains of the
\* route (ids are ObjectIds, lists are arrays); the handler bodies follow.
MOD_DENIED == "Module not found or access denied"
PREREQ_INVALID == "Some prerequisite modules are invalid or belong to different department"
CIRCULAR == "Circular dependency detected in prerequisites"
GROUPS_INVALID == "Some groups are invalid or belong to different department"
GROUPS_DENIED == "Can only assign modules to groups you teach"

\* Group.find({_id: {$in: gs}, department: dept, isActive: true})
ValidGroups(gs, dept) ==
    {g \in Range(gs) \cap GroupIds :
        groups[g].department = dept /\ groups[g].isActive}

\* validGroups.filter(group => group.teacher === user._id)
TeacherGroups(valid, user) == {g \in valid : groups[g].teacher = user}

\* A variant of the lookup in which a Teacher is scoped by department, as
\* an HOD is, instead of by createdBy.
FindModuleForChangeByDepartment(user, id) ==
    IF id \notin DOMAIN modules THEN FALSE
    ELSE IF users[user].role = "Admin" THEN TRUE
    ELSE IF users[user].role \in {"HOD", "Teacher"}
        THEN modules[id].department = users[user].department
    ELSE FALSE

\* Whether a change handler finds the module (module is not null): Admin any
\* module, HOD a module of the own department, Teacher a module they created,
\* anyone else none.
\* The same lookup is written out in PUT /:id (521-532), DELETE /:id
\* (638-646), POST and DELETE /:id/questions (714-722, 811-819) and POST and
\* DELETE /:id/notes (872-880, 969-977).
FindModuleForChange(user, id) ==
    IF id \notin DOMAIN modules THEN FALSE
    ELSE IF users[user].role = "Admin" THEN TRUE
    ELSE IF users[user].role = "HOD"
        THEN modules[id].department = users[user].department
    ELSE IF users[user].role = "Teacher"
        THEN modules[id].createdBy = user
    ELSE FALSE

\* checkCircularDependency: Module.find({_id: {$in: moduleIds}, department})
CycleDocs(departmentId, moduleIds) ==
    {m \in DOMAIN modules :
        m \in Range(moduleIds) /\ modules[m].department = departmentId}

\* A variant of hasCycle without the recursion stack: meeting a visited
\* module again counts as a cycle.
RECURSIVE HasCycleVisitedOnly(_, _, _, _), HasCycleInVisitedOnly(_, _, _, _, _)
HasCycleVisitedOnly(docs, cur, visited, stack) ==
    IF cur \in visited THEN [cycle |-> TRUE, visited |-> visited]
    ELSE IF cur \in docs
        THEN HasCycleInVisitedOnly(docs, modules[cur].prerequisites, 1,
                                   visited \cup {cur}, stack \cup {cur})
    ELSE [cycle |-> FALSE, visited |-> visited \cup {cur}]

HasCycleInVisitedOnly(docs, prereqs, i, visited, stack) ==
    IF i > Len(prereqs) THEN [cycle |-> FALSE, visited |-> visited]
    ELSE LET r == HasCycleVisitedOnly(docs, prereqs[i], visited, stack)
         IN  IF r.cycle THEN r
             ELSE HasCycleInVisitedOnly(docs, prereqs, i + 1, r.visited, stack)

\* hasCycle(currentModuleId) with its two sets; the recursion stack is the
\* set of modules on the current path (an entry is deleted on a false return).
RECURSIVE HasCycle(_, _, _, _), HasCycleIn(_, _, _, _, _)
HasCycle(docs, cur, visited, stack) ==
    IF cur \in stack THEN [cycle |-> TRUE, visited |-> visited]
    ELSE IF cur \in visited THEN [cycle |-> FALSE, visited |-> visited]
    ELSE IF cur \in docs
        THEN HasCycleIn(docs, modules[cur].prerequisites, 1,
                        visited \cup {cur}, stack \cup {cur})
    ELSE [cycle |-> FALSE, visited |-> visited \cup {cur}]

\* the for loop of hasCycle over currentModule.prerequisites
HasCycleIn(docs, prereqs, i, visited, stack) ==
    IF i > Len(prereqs) THEN [cycle |-> FALSE, visited |-> visited]
    ELSE LET r == HasCycle(docs, prereqs[i], visited, stack)
         IN  IF r.cycle THEN r
             ELSE HasCycleIn(docs, prereqs, i + 1, r.visited, stack)

\* the for loop over moduleIds of checkCircularDependency
RECURSIVE CheckFrom(_, _, _, _)
CheckFrom(docs, moduleIds, i, visited) ==
    IF i > Len(moduleIds) THEN FALSE
    ELSE LET r == HasCycle(docs, moduleIds[i], visited, {})
         IN  r.cycle \/ CheckFrom(docs, moduleIds, i + 1, r.visited)

checkCircularDependency(departmentId, moduleIds) ==
    CheckFrom(CycleDocs(departmentId, moduleIds), moduleIds, 1, {})

\* POST /: Module.find({_id: {$in: prerequisites}, department, isActive: true})
CreateValidPrerequisites(prereqs, dept) ==
    {m \in DOMAIN modules :
        m \in Range(prereqs) /\ modules[m].department = dept /\ modules[m].isActive}

\* PUT /:id: Module.find({_id: {$in: ...}, department, isActive: true,
\* _id: {$ne: id}}): the object literal names _id twice and the later
\* value replaces the earlier one, so the $in condition is not in the query.
UpdateValidPrerequisites(prereqs, dept, id) ==
    {m \in DOMAIN modules :
        modules[m].department = dept /\ modules[m].isActive /\ m # id}

\* POST /api/modules
PostModule(user, body) ==
    LET op == "POST /api/modules"
        dept == body.department
        fail(status, error) == Result(modules, Response(op, status, error, {}))
        vg == ValidGroups(body.groups, dept)
        doc == [title |-> Trim(body.title),
                description |-> IF IsDefined(body.description)
                                THEN Some(Trim(Val(body.description)))
                                ELSE Undefined,
                department |-> dept,
                groups |-> body.groups,
                createdBy |-> user,
                difficulty |-> body.difficulty,
                estimatedHours |-> body.estimatedHours,
                tags |-> [i \in 1..Len(body.tags) |-> ToLowerCase(Trim(body.tags[i]))],
                prerequisites |-> body.prerequisites,
                sortOrder |-> body.sortOrder,
                isActive |-> TRUE,
                questions |-> <<>>,
                notes |-> <<>>]
    IN  IF dept \notin DOMAIN departments \/ ~departments[dept].isActive
            THEN fail(400, "Department not found or inactive")
        ELSE IF users[user].role = "HOD" /\ dept # users[user].department
            THEN fail(403, "Cannot create module in another department")
        ELSE IF Len(body.groups) > 0 /\ Cardinality(vg) # Len(body.groups)
            THEN fail(400, GROUPS_INVALID)
        ELSE IF Len(body.groups) > 0 /\ users[user].role = "Teacher"
                /\ Cardinality(TeacherGroups(vg, user)) # Cardinality(vg)
            THEN fail(403, GROUPS_DENIED)
        ELSE IF Len(body.prerequisites) > 0
                /\ Cardinality(CreateValidPrerequisites(body.prerequisites, dept))
                    # Len(body.prerequisites)
            THEN fail(400, PREREQ_INVALID)
        ELSE IF Len(body.prerequisites) > 0
                /\ checkCircularDependency(dept, body.prerequisites)
            THEN fail(400, CIRCULAR)
        ELSE Result(Append(modules, doc),
                    Response(op, 201, "", {Len(modules) + 1}))

\* updateData of PUT /:id: the allowed fields the body defines
UpdateData(old, body) ==
    [old EXCEPT
        !.title = IF IsDefined(body.title) THEN Trim(Val(body.title)) ELSE @,
        !.description = IF IsDefined(body.description)
                        THEN Some(Trim(Val(body.description))) ELSE @,
        !.groups = IF IsDefined(body.groups) THEN Val(body.groups) ELSE @,
        !.difficulty = IF IsDefined(body.difficulty) THEN Val(body.difficulty) ELSE @,
        !.estimatedHours = IF IsDefined(body.estimatedHours)
                           THEN body.estimatedHours ELSE @,
        !.tags = IF IsDefined(body.tags)
                 THEN [i \in 1..Len(Val(body.tags)) |->
                          ToLowerCase(Trim(Val(body.tags)[i]))]
                 ELSE @,
        !.prerequisites = IF IsDefined(body.prerequisites)
                          THEN Val(body.prerequisites) ELSE @,
        !.sortOrder = IF IsDefined(body.sortOrder) THEN Val(body.sortOrder) ELSE @]

\* PUT /api/modules/:id
PutModule(user, id, body) ==
    LET op == "PUT /api/modules/:id"
        fail(status, error) == Result(modules, Response(op, status, error, {}))
        dept == modules[id].department
        gs == Val(body.groups)
        vg == ValidGroups(gs, dept)
        prereqs == Val(body.prerequisites)
    IN  IF ~FindModuleForChange(user, id) THEN fail(404, MOD_DENIED)
        ELSE IF IsDefined(body.groups) /\ Cardinality(vg) # Len(gs)
            THEN fail(400, GROUPS_INVALID)
        ELSE IF IsDefined(body.groups) /\ users[user].role = "Teacher"
                /\ Cardinality(TeacherGroups(vg, user)) # Cardinality(vg)
            THEN fail(403, GROUPS_DENIED)
        ELSE IF IsDefined(body.prerequisites)
                /\ Cardinality(UpdateValidPrerequisites(prereqs, dept, id))
                    # Len(prereqs)
            THEN fail(400, PREREQ_INVALID)
        ELSE IF IsDefined(body.prerequisites)
                /\ checkCircularDependency(dept, Append(prereqs, id))
            THEN fail(400, CIRCULAR)
        ELSE Result([modules EXCEPT ![id] = UpdateData(@, body)],
                    Response(op, 200, "", {id}))

\* Assessment.countDocuments({modules: id, isActive: true})
ActiveAssessments(id) == IF id \in assessed THEN 1 ELSE 0

\* Module.countDocuments({prerequisites: id, isActive: true})
DependentModules(id) ==
    Cardinality({m \in DOMAIN modules :
        modules[m].isActive /\ id \in Range(modules[m].prerequisites)})

\* DELETE /api/modules/:id
DeleteModule(user, id) ==
    LET op == "DELETE /api/modules/:id"
        fail(status, error) == Result(modules, Response(op, status, error, {}))
    IN  IF ~FindModuleForChange(user, id) THEN fail(404, MOD_DENIED)
        ELSE IF ActiveAssessments(id) > 0
            THEN fail(400, "Cannot delete module used in active assessments")
        ELSE IF DependentModules(id) > 0
            THEN fail(400, "Cannot delete module that is a prerequisite for other modules")
        ELSE Result([modules EXCEPT ![id].isActive = FALSE],
                    Response(op, 200, "", {id}))

\* Question.find({_id: {$in: questionIds}, isActive: true})
ActiveQuestions(ids) == {q \in Range(ids) \cap DOMAIN questions : questions[q].isActive}

\* A variant of the filter that keeps every id.
NotInKeepAll(ids, present) ==
    LET Keep(x) == TRUE IN SelectSeq(ids, Keep)

\* questionIds.filter(id => !module.questions.includes(id))
NotIn(ids, present) ==
    LET Keep(x) == x \notin present IN SelectSeq(ids, Keep)

\* POST /api/modules/:id/questions
PostQuestions(user, id, questionIds) ==
    LET op == "POST /api/modules/:id/questions"
        fail(status, error) == Result(modules, Response(op, status, error, {}))
        found == ActiveQuestions(questionIds)
        invalid == {q \in found : questions[q].department = None
                                  \/ questions[q].department # modules[id].department}
        questionsToAdd == NotIn(questionIds, Range(modules[id].questions))
    IN  IF ~FindModuleForChange(user, id) THEN fail(404, MOD_DENIED)
        ELSE IF Cardinality(found) # Len(questionIds)
            THEN fail(400, "Some questions are not valid or inactive")
        ELSE IF Cardinality(invalid) > 0
            THEN fail(400, "All questions must belong to the same department as the module")
        ELSE IF Len(questionsToAdd) = 0
            THEN fail(400, "All specified questions are already in the module")
        ELSE Result([modules EXCEPT ![id].questions = @ \o questionsToAdd],
                    Response(op, 200, "", {id}))

\* module.questions.filter(qId => !qId.equals(questionId))
Without(list, x) == LET Keep(y) == y # x IN SelectSeq(list, Keep)

\* DELETE /api/modules/:id/questions/:questionId
DeleteQuestion(user, id, questionId) ==
    LET op == "DELETE /api/modules/:id/questions/:questionId"
        fail(status, error) == Result(modules, Response(op, status, error, {}))
    IN  IF ~FindModuleForChange(user, id) THEN fail(404, MOD_DENIED)
        ELSE IF questionId \notin Range(modules[id].questions)
            THEN fail(400, "Question is not in this module")
        ELSE Result([modules EXCEPT ![id].questions = Without(@, questionId)],
                    Response(op, 200, "", {id}))

\* Note.find({_id: {$in: noteIds}, isActive: true})
ActiveNotes(ids) == {n \in Range(ids) \cap DOMAIN notes : notes[n].isActive}

\* POST /api/modules/:id/notes
PostNotes(user, id, noteIds) ==
    LET op == "POST /api/modules/:id/notes"
        fail(status, error) == Result(modules, Response(op, status, error, {}))
        found == ActiveNotes(noteIds)
        invalid == {n \in found : notes[n].department = None
                                  \/ notes[n].department # modules[id].department}
        notesToAdd == NotIn(noteIds, Range(modules[id].notes))
    IN  IF ~FindModuleForChange(user, id) THEN fail(404, MOD_DENIED)
        ELSE IF Cardinality(found) # Len(noteIds)
            THEN fail(400, "Some notes are not valid or inactive")
        ELSE IF Cardinality(invalid) > 0
            THEN fail(400, "All notes must belong to the same department as the module")
        ELSE IF Len(notesToAdd) = 0
            THEN fail(400, "All specified notes are already in the module")
        ELSE Result([modules EXCEPT ![id].notes = @ \o notesToAdd],
                    Response(op, 200, "", {id}))

\* DELETE /api/modules/:id/notes/:noteId
DeleteNote(user, id, noteId) ==
    LET op == "DELETE /api/modules/:id/notes/:noteId"
        fail(status, error) == Result(modules, Response(op, status, error, {}))
    IN  IF ~FindModuleForChange(user, id) THEN fail(404, MOD_DENIED)
        ELSE IF noteId \notin Range(modules[id].notes)
            THEN fail(400, "Note is not in this module")
        ELSE Result([modules EXCEPT ![id].notes = Without(@, noteId)],
                    Response(op, 200, "", {id}))

\* GET /api/modules: the query object, built in the order of the handler.
\* A later assignment to a key replaces what an earlier one stored there.
NoOr == [kind |-> "none", text |-> <<>>, user |-> None, groups |-> {}]
NoGroups == [kind |-> "none", group |-> None, in |-> {}]

\* "Role-based access control" of GET /api/modules
ModuleRoleFilter(user, query) ==
    LET role == users[user].role
    IN  IF role = "Admin" THEN query
        ELSE IF role = "HOD"
            THEN [query EXCEPT !.department = Some(users[user].department)]
        ELSE IF role = "Teacher"
            THEN [query EXCEPT !.or = [NoOr EXCEPT !.kind = "teacher",
                                                   !.user = user,
                                                   !.groups = users[user].groups]]
        ELSE [query EXCEPT !.groups = [NoGroups EXCEPT !.kind = "in",
                                                       !.in = users[user].groups]]

\* A variant of the group filter that is applied for every role.
ModuleGroupFilterAnyRole(user, group, query) ==
    IF IsDefined(group)
    THEN [query EXCEPT !.groups = [NoGroups EXCEPT !.kind = "eq",
                                                   !.group = Val(group)]]
    ELSE query

\* "Apply group filter for admin/hod/teacher" of GET /api/modules
ModuleGroupFilter(user, group, query) ==
    IF IsDefined(group) /\ users[user].role \in {"Admin", "HOD", "Teacher"}
    THEN [query EXCEPT !.groups = [NoGroups EXCEPT !.kind = "eq",
                                                   !.group = Val(group)]]
    ELSE query

ModuleListQuery(user, q) ==
    LET q0 == [isActive |-> IF IsDefined(q.isActive) THEN Val(q.isActive) = "true"
                            ELSE TRUE,
               or |-> NoOr, department |-> Undefined, difficulty |-> Undefined,
               createdBy |-> Undefined, tags |-> Undefined, questions |-> FALSE,
               groups |-> NoGroups]
        q1 == IF IsDefined(q.search) /\ Len(Val(q.search)) > 0
              THEN [q0 EXCEPT !.or = [NoOr EXCEPT !.kind = "search",
                                                   !.text = Val(q.search)]]
              ELSE q0
        q2 == IF IsDefined(q.department) THEN [q1 EXCEPT !.department = q.department]
              ELSE q1
        q3 == IF IsDefined(q.difficulty) THEN [q2 EXCEPT !.difficulty = q.difficulty]
              ELSE q2
        q4 == IF IsDefined(q.createdBy) THEN [q3 EXCEPT !.createdBy = q.createdBy]
              ELSE q3
        q5 == IF IsDefined(q.tags) THEN [q4 EXCEPT !.tags = q.tags] ELSE q4
        q6 == IF IsDefined(q.hasQuestions) /\ Val(q.hasQuestions) = "true"
              THEN [q5 EXCEPT !.questions = TRUE] ELSE q5
    IN  ModuleGroupFilter(user, q.group, ModuleRoleFilter(user, q6))

\* the $or of the search: title, description or a tag matches the pattern
ModuleMatchesSearch(m, text) ==
    \/ RegexMatchI(m.title, text)
    \/ IsDefined(m.description) /\ RegexMatchI(Val(m.description), text)
    \/ \E i \in 1..Len(m.tags) : RegexMatchI(m.tags[i], text)

\* whether a Module document satisfies the query (Module.find semantics)
ModuleMatches(m, query) ==
    /\ m.isActive = query.isActive
    /\ CASE query.or.kind = "search" -> ModuleMatchesSearch(m, query.or.text)
         [] query.or.kind = "teacher" ->
                \/ m.createdBy = query.or.user
                \/ Range(m.groups) \cap query.or.groups # {}
         [] OTHER -> TRUE
    /\ IsDefined(query.department) => m.department = Val(query.department)
    /\ IsDefined(query.difficulty) => m.difficulty = Val(query.difficulty)
    /\ IsDefined(query.createdBy) => m.createdBy = Val(query.createdBy)
    /\ IsDefined(query.tags) => Range(m.tags) \cap Range(Val(query.tags)) # {}
    /\ query.questions => Len(m.questions) > 0
    /\ CASE query.groups.kind = "in" -> Range(m.groups) \cap query.groups.in # {}
         [] query.groups.kind = "eq" -> query.groups.group \in Range(m.groups)
         [] OTHER -> TRUE

\* GET /api/modules.  data is the set Module.find(query) selects; the page
\* the response carries (sort, skip, limit) is a part of it.
GetModules(user, q) ==
    LET query == ModuleListQuery(user, q)
    IN  Result(modules,
               Response("GET /api/modules", 200, "",
                        {m \in DOMAIN modules : ModuleMatches(modules[m], query)}))

\* ------------------------------------------------------------- notices.js
\* The ObjectIds of the notices, in the order the documents are created; a
\* path segment of a request is such an id or a word.
NoticeIdSeq == <<"N1", "N2", "N3", "N4">>
NoticeIds == {NoticeIdSeq[i] : i \in 1..(MaxNotices + 1)}

\* express-validator isMongoId() on a path segment of the notice routes
IsMongoId(seg) == seg \in Range(NoticeIdSeq)

\* Notice.findById(id): the index of the document, 0 for null
NoticeIndex(id) ==
    IF \E i \in DOMAIN notices : NoticeIdSeq[i] = id
    THEN CHOOSE i \in DOMAIN notices : NoticeIdSeq[i] = id
    ELSE 0

NoticeResult(ns, r) == [notices |-> ns, resp |-> r]

NOTICE_DENIED == "Notice not found or access denied"
NOTICE_ID_INVALID == "Invalid notice ID"

\* Group.find({_id: {$in: gs}, isActive: true})
ActiveGroups(gs) == {g \in Range(gs) \cap GroupIds : groups[g].isActive}

\* A variant of the targeting check without the check of role notices.
TargetingErrorDepartmentAndGroup(body) ==
    IF body.targetType = "department" /\ body.department = None
        THEN "Department is required for department-specific notices"
    ELSE IF body.targetType = "group" /\ Len(body.groups) = 0
        THEN "At least one group is required for group-specific notices"
    ELSE ""

\* POST /: "Validate targeting based on type"; "" when the targeting is valid
TargetingError(body) ==
    IF body.targetType = "department" /\ body.department = None
        THEN "Department is required for department-specific notices"
    ELSE IF body.targetType = "group" /\ Len(body.groups) = 0
        THEN "At least one group is required for group-specific notices"
    ELSE IF body.targetType = "role" /\ Len(body.targetRoles) = 0
        THEN "At least one target role is required for role-specific notices"
    ELSE ""

\* POST /api/notices
PostNotice(user, body) ==
    LET op == "POST /api/notices"
        fail(status, error) == NoticeResult(notices, Response(op, status, error, {}))
        dept == body.department
        vg == ActiveGroups(body.groups)
        doc == [title |-> Trim(body.title),
                content |-> Trim(body.content),
                postedBy |-> user,
                targetType |-> body.targetType,
                targetRoles |-> body.targetRoles,
                department |-> dept,
                groups |-> body.groups,
                priority |-> body.priority,
                expiresAt |-> body.expiresAt,
                isActive |-> TRUE,
                readBy |-> {}]
    IN  IF IsDefined(body.expiresAt) /\ Val(body.expiresAt) <= now
            THEN NoticeResult(notices,
                    ValidationFailed(op, "Expiration date must be in the future"))
        ELSE IF TargetingError(body) # "" THEN fail(400, TargetingError(body))
        ELSE IF dept # None
                /\ (dept \notin DOMAIN departments \/ ~departments[dept].isActive)
            THEN fail(400, "Department not found or inactive")
        ELSE IF dept # None /\ users[user].role = "HOD" /\ dept # users[user].department
            THEN fail(403, "Cannot create notice for another department")
        ELSE IF Len(body.groups) > 0 /\ Cardinality(vg) # Len(body.groups)
            THEN fail(400, "Some groups are invalid or inactive")
        ELSE IF Len(body.groups) > 0 /\ users[user].role = "Teacher"
                /\ Cardinality(TeacherGroups(vg, user)) # Cardinality(vg)
            THEN fail(403, "Can only create notices for groups you teach")
        ELSE NoticeResult(Append(notices, doc),
                          Response(op, 201, "", {NoticeIdSeq[Len(notices) + 1]}))

\* PUT /:id: the notice the caller may update (notice is not null)
FindNoticeForUpdate(user, i) ==
    IF i \notin DOMAIN notices THEN FALSE
    ELSE IF users[user].role = "Admin" THEN TRUE
    ELSE IF users[user].role = "HOD"
        THEN \/ notices[i].postedBy = user
             \/ notices[i].targetType = "all"
             \/ notices[i].targetType = "role" /\ "HOD" \in Range(notices[i].targetRoles)
    ELSE IF users[user].role = "Teacher" THEN notices[i].postedBy = user
    ELSE FALSE

\* A variant of updateData that takes every field of the body.
NoticeUpdateDataEveryField(old, body) ==
    [old EXCEPT
        !.title = IF IsDefined(body.title) THEN Trim(Val(body.title)) ELSE @,
        !.content = IF IsDefined(body.content) THEN Trim(Val(body.content)) ELSE @,
        !.priority = IF IsDefined(body.priority) THEN Val(body.priority) ELSE @,
        !.expiresAt = IF IsDefined(body.expiresAt) THEN body.expiresAt ELSE @,
        !.targetType = IF IsDefined(body.targetType) THEN Val(body.targetType) ELSE @,
        !.isActive = IF IsDefined(body.isActive) THEN Val(body.isActive) ELSE @]

\* updateData of PUT /:id: title, content, priority and expiresAt
NoticeUpdateData(old, body) ==
    [old EXCEPT
        !.title = IF IsDefined(body.title) THEN Trim(Val(body.title)) ELSE @,
        !.content = IF IsDefined(body.content) THEN Trim(Val(body.content)) ELSE @,
        !.priority = IF IsDefined(body.priority) THEN Val(body.priority) ELSE @,
        !.expiresAt = IF IsDefined(body.expiresAt) THEN body.expiresAt ELSE @]

\* PUT /api/notices/:id
PutNotice(user, id, body) ==
    LET op == "PUT /api/notices/:id"
        i == NoticeIndex(id)
    IN  IF ~IsMongoId(id)
            THEN NoticeResult(notices, ValidationFailed(op, NOTICE_ID_INVALID))
        ELSE IF IsDefined(body.expiresAt) /\ Val(body.expiresAt) <= now
            THEN NoticeResult(notices,
                    ValidationFailed(op, "Expiration date must be in the future"))
        ELSE IF ~FindNoticeForUpdate(user, i)
            THEN NoticeResult(notices, Response(op, 404, NOTICE_DENIED, {}))
        ELSE NoticeResult([notices EXCEPT ![i] = NoticeUpdateData(@, body)],
                          Response(op, 200, "", {id}))

\* A variant of the lookup in which a Teacher is not scoped by postedBy.
FindNoticeForDeleteAnyTeacher(user, i) ==
    IF i \notin DOMAIN notices THEN FALSE
    ELSE IF users[user].role = "Admin" THEN TRUE
    ELSE IF users[user].role = "HOD" THEN notices[i].postedBy = user
    ELSE IF users[user].role = "Teacher" THEN TRUE
    ELSE FALSE

\* DELETE /:id: the notice the caller may delete (notice is not null)
FindNoticeForDelete(user, i) ==
    IF i \notin DOMAIN notices THEN FALSE
    ELSE IF users[user].role = "Admin" THEN TRUE
    ELSE IF users[user].role = "HOD" THEN notices[i].postedBy = user
    ELSE IF users[user].role = "Teacher" THEN notices[i].postedBy = user
    ELSE FALSE

\* DELETE /api/notices/:id
DeleteNotice(user, id) ==
    LET op == "DELETE /api/notices/:id"
        i == NoticeIndex(id)
    IN  IF ~IsMongoId(id)
            THEN NoticeResult(notices, ValidationFailed(op, NOTICE_ID_INVALID))
        ELSE IF ~FindNoticeForDelete(user, i)
            THEN NoticeResult(notices, Response(op, 404, NOTICE_DENIED, {}))
        ELSE NoticeResult([notices EXCEPT ![i].isActive = FALSE],
                          Response(op, 200, "", {id}))

\* the virtual isExpired and the $or on expiresAt of the list queries
Unexpired(n) == ~IsDefined(n.expiresAt) \/ Val(n.expiresAt) > now

\* Whether a notice is addressed to a user: to all users, to a role set, to
\* a department or to groups (models/Notice: hasAccess, findByUser).
TargetsUser(n, user) ==
    CASE n.targetType = "all" -> TRUE
      [] n.targetType = "role" -> users[user].role \in Range(n.targetRoles)
      [] n.targetType = "department" -> n.department = users[user].department
      [] n.targetType = "group" -> Range(n.groups) \cap users[user].groups # {}
      [] OTHER -> FALSE

\* Notice.findByUser(userId, {unread}): the active, unexpired notices
\* addressed to the user, the unread ones only when asked
FindByUser(user, unread) ==
    {i \in DOMAIN notices :
        /\ notices[i].isActive
        /\ Unexpired(notices[i])
        /\ TargetsUser(notices[i], user)
        /\ unread => user \notin notices[i].readBy}

\* GET /api/notices: the query object, built in the order of the handler
NoticeListQuery(user, q) ==
    LET role == users[user].role
        q0 == [isActive |-> TRUE, or |-> NoOr, department |-> Undefined,
               groups |-> Undefined, targetType |-> Undefined,
               priority |-> Undefined, postedBy |-> Undefined]
        q1 == IF IsDefined(q.search) /\ Len(Val(q.search)) > 0
              THEN [q0 EXCEPT !.or = [NoOr EXCEPT !.kind = "search",
                                                   !.text = Val(q.search)]]
              ELSE q0
        q2 == IF IsDefined(q.department) THEN [q1 EXCEPT !.department = q.department]
              ELSE q1
        q3 == IF IsDefined(q.group) THEN [q2 EXCEPT !.groups = q.group] ELSE q2
        q4 == IF IsDefined(q.targetType) THEN [q3 EXCEPT !.targetType = q.targetType]
              ELSE q3
        q5 == IF IsDefined(q.priority) THEN [q4 EXCEPT !.priority = q.priority] ELSE q4
        q6 == IF IsDefined(q.isActive)
              THEN [q5 EXCEPT !.isActive = (Val(q.isActive) = "true")] ELSE q5
        q7 == IF IsDefined(q.postedBy) THEN [q6 EXCEPT !.postedBy = q.postedBy] ELSE q6
    IN  IF role = "HOD"
            THEN [q7 EXCEPT !.or = [NoOr EXCEPT !.kind = "hod", !.user = user]]
        ELSE IF role = "Teacher"
            THEN [q7 EXCEPT !.or = [NoOr EXCEPT !.kind = "teacher", !.user = user,
                                                 !.groups = users[user].groups]]
        ELSE q7

\* the $or of the search: title or content matches the pattern
NoticeMatchesSearch(n, text) ==
    RegexMatchI(n.title, text) \/ RegexMatchI(n.content, text)

\* whether a Notice document satisfies the query (Notice.find semantics)
NoticeMatches(n, query) ==
    /\ n.isActive = query.isActive
    /\ CASE query.or.kind = "search" -> NoticeMatchesSearch(n, query.or.text)
         [] query.or.kind = "hod" ->
                \/ n.targetType = "all"
                \/ n.targetType = "role" /\ "HOD" \in Range(n.targetRoles)
                \/ n.targetType = "department"
                    /\ n.department = users[query.or.user].department
         [] query.or.kind = "teacher" ->
                \/ n.targetType = "all"
                \/ n.targetType = "role" /\ "Teacher" \in Range(n.targetRoles)
                \/ n.targetType = "group" /\ Range(n.groups) \cap query.or.groups # {}
         [] OTHER -> TRUE
    /\ IsDefined(query.department) => n.department = Val(query.department)
    /\ IsDefined(query.groups) => Val(query.groups) \in Range(n.groups)
    /\ IsDefined(query.targetType) => n.targetType = Val(query.targetType)
    /\ IsDefined(query.priority) => n.priority = Val(query.priority)
    /\ IsDefined(query.postedBy) => n.postedBy = Val(query.postedBy)
    /\ Unexpired(n)

\* The total of the Student branch: Notice.countDocuments({isActive: true,
\* $or: [targeting], $or: [unexpired]}).  The object names $or twice, so
\* the later value replaces the earlier one and the filter is {isActive:
\* true, $or: [unexpired]}.
StudentNoticeTotal(user) ==
    Cardinality({i \in DOMAIN notices : notices[i].isActive /\ Unexpired(notices[i])})

\* GET /api/notices.  data is the set of notices the response is taken
\* from: the page it carries (sort, skip, limit) is a part of it.
GetNotices(user, q) ==
    LET query == NoticeListQuery(user, q)
        unread == IsDefined(q.unread) /\ Val(q.unread) = "true"
        found == IF users[user].role \in {"Admin", "HOD", "Teacher"}
                 THEN {i \in DOMAIN notices :
                          /\ NoticeMatches(notices[i], query)
                          /\ unread => user \notin notices[i].readBy}
                 ELSE FindByUser(user, unread)
        \* pagination.total: Notice.countDocuments(query) for Admin, HOD and
        \* Teacher, StudentNoticeTotal for a Student
        total == IF users[user].role \in {"Admin", "HOD", "Teacher"}
                 THEN Cardinality({i \in DOMAIN notices : NoticeMatches(notices[i], query)})
                 ELSE StudentNoticeTotal(user)
    IN  NoticeResult(notices,
            [Response("GET /api/notices", 200, "", {NoticeIdSeq[i] : i \in found})
                EXCEPT !.total = total])

\* GET /api/notices/:id
GetNotice(user, id) ==
    LET op == "GET /api/notices/:id"
        i == NoticeIndex(id)
        fail(status, error) == NoticeResult(notices, Response(op, status, error, {}))
    IN  IF ~IsMongoId(id)
            THEN NoticeResult(notices, ValidationFailed(op, NOTICE_ID_INVALID))
        ELSE IF i = 0 THEN fail(404, "Notice not found")
        ELSE IF ~TargetsUser(notices[i], user)
            THEN fail(403, "Access denied to this notice")
        ELSE IF ~Unexpired(notices[i]) THEN fail(404, "Notice has expired")
        ELSE NoticeResult(notices, Response(op, 200, "", {id}))

\* notice.markAsRead(userId) of models/Notice: records the user as a reader
MarkAsRead(ns, i, user) == [ns EXCEPT ![i].readBy = @ \cup {user}]

RECURSIVE MarkEach(_, _, _)
MarkEach(ns, todo, user) ==
    IF todo = {} THEN ns
    ELSE LET i == CHOOSE j \in todo : TRUE
         IN  MarkEach(MarkAsRead(ns, i, user), todo \ {i}, user)

\* POST /api/notices/:id/mark-read.  failed: the markAsRead call rejects.
MarkRead(user, id, failed) ==
    LET op == "POST /api/notices/:id/mark-read"
        i == NoticeIndex(id)
        fail(status, error) == NoticeResult(notices, Response(op, status, error, {}))
    IN  IF ~IsMongoId(id)
            THEN NoticeResult(notices, ValidationFailed(op, NOTICE_ID_INVALID))
        ELSE IF i = 0 THEN fail(404, "Notice not found")
        ELSE IF ~TargetsUser(notices[i], user)
            THEN fail(403, "Access denied to this notice")
        ELSE IF failed THEN fail(500, "Failed to mark notice as read")
        ELSE NoticeResult(MarkAsRead(notices, i, user), Response(op, 200, "", {id}))

\* POST /api/notices/mark-all-read.  failing: the notices whose markAsRead
\* call rejects; the rejection is caught and the promise then resolves to
\* null.  markPromises holds the promises themselves, none of which is
\* null, so the filter keeps all of them.
MarkAllRead(user, failing) ==
    LET found == FindByUser(user, FALSE)
        markPromises == found
        markedCount == Cardinality({p \in markPromises : TRUE})
    IN  NoticeResult(MarkEach(notices, found \ failing, user),
            [Response("POST /api/notices/mark-all-read", 200, "",
                      {NoticeIdSeq[i] : i \in found})
                EXCEPT !.markedCount = markedCount])

\* GET /api/notices/unread-count: Notice.getUnreadCount(userId); data is the
\* set of notices counted
GetUnreadCount(user) ==
    NoticeResult(notices,
        Response("GET /api/notices/unread-count", 200, "",
                 {NoticeIdSeq[i] : i \in FindByUser(user, TRUE)}))

\* GET /api/notices/stats; data is the set of the active notices counted
GetNoticeStats(user) ==
    NoticeResult(notices,
        Response("GET /api/notices/stats", 200, "",
                 {NoticeIdSeq[i] : i \in {j \in DOMAIN notices : notices[j].isActive}}))

\* The GET routes of the notice router with one path segment, in the order
\* of their registration: router.get('/:id') (line 257), router.get(
\* '/unread-count') (line 666), router.get('/stats') (line 826).
NoticeGetRoutes == <<":id", "unread-count", "stats">>

\* a route pattern with a parameter matches every segment
RouteMatches(pattern, seg) == pattern = ":id" \/ pattern = seg

\* Express hands the request to the first registered route that matches;
\* each of these handlers answers and never calls next()
DispatchNoticeGet(user, seg) ==
    LET first == CHOOSE i \in DOMAIN NoticeGetRoutes :
                    /\ RouteMatches(NoticeGetRoutes[i], seg)
                    /\ \A j \in 1..(i - 1) : ~RouteMatches(NoticeGetRoutes[j], seg)
        route == NoticeGetRoutes[first]
    IN  CASE route = "unread-count" -> GetUnreadCount(user)
          [] route = "stats" -> GetNoticeStats(user)
          [] OTHER -> GetNotice(user, seg)

\* ------------------------------------------------- notices.js, departments
DEPT_DENIED == "Department not found or access denied"

\* The department the handlers of GET /:id and GET /:id/groups load, None
\* for null.  Admin: the requested one.  HOD: {_id: id, hod: user._id}.
\* Anyone else: {_id: id, _id: user.department}, an object literal that names
\* _id twice: the later value replaces the earlier one and the query is
\* {_id: user.department}.
FindDepartmentForRead(user, id) ==
    IF users[user].role = "Admin"
        THEN IF id \in DOMAIN departments THEN id ELSE None
    ELSE IF users[user].role = "HOD"
        THEN IF id \in DOMAIN departments /\ departments[id].hod = user
             THEN id ELSE None
    ELSE IF users[user].department \in DOMAIN departments
        THEN users[user].department
    ELSE None

\* Group.find({department: d, isActive: true})
GroupsOfDepartment(d) ==
    {g \in DOMAIN groups : groups[g].department = d /\ groups[g].isActive}

\* GET /api/departments/:id.  data is what the response carries: the
\* department found and the groups of that department.
GetDepartment(user, id) ==
    LET op == "GET /api/departments/:id"
        department == FindDepartmentForRead(user, id)
    IN  IF department = None THEN Result(modules, Response(op, 404, DEPT_DENIED, {}))
        ELSE Result(modules,
                Response(op, 200, "", {department} \cup GroupsOfDepartment(department)))

\* GET /api/departments/:id/groups.  data is the groups the response
\* carries: Group.find({department: id, isActive: true}), with the id of
\* the request.
GetDepartmentGroups(user, id) ==
    LET op == "GET /api/departments/:id/groups"
        department == FindDepartmentForRead(user, id)
    IN  IF department = None THEN Result(modules, Response(op, 404, DEPT_DENIED, {}))
        ELSE Result(modules, Response(op, 200, "", GroupsOfDepartment(id)))

\* The ids of Department documents in the order of their creation; D1 and
\* D2 exist from the start.
DeptIdSeq == <<"D1", "D2", "D3", "D4", "D5">>

DEPT_NAME_EXISTS == "Department name already exists"
DEPT_CODE_EXISTS == "Department code already exists"
HOD_ROLE_REQUIRED == "HOD must be a user with HOD role"

DeptResult(us, ds, r) == [users |-> us, departments |-> ds, resp |-> r]

\* Department.findOne({name}) and Department.findOne({code}): whether a
\* document is found
DepartmentNamed(name) == \E d \in DOMAIN departments : departments[d].name = name
DepartmentCoded(code) == \E d \in DOMAIN departments : departments[d].code = code

\* A variant of the lookup that looks at the name only.
ExistingDepartmentByName(name, code) ==
    LET hits == {i \in 1..Cardinality(DOMAIN departments) :
                    departments[DeptIdSeq[i]].name = name}
    IN  IF hits = {} THEN None
        ELSE DeptIdSeq[CHOOSE i \in hits : \A j \in hits : i <= j]

\* Department.findOne({$or: [{name}, {code}]}): the first document, in the
\* order of creation, that has the name or the code; None for null
ExistingDepartment(name, code) ==
    LET hits == {i \in 1..Cardinality(DOMAIN departments) :
                    \/ departments[DeptIdSeq[i]].name = name
                    \/ departments[DeptIdSeq[i]].code = code}
    IN  IF hits = {} THEN None
        ELSE DeptIdSeq[CHOOSE i \in hits : \A j \in hits : i <= j]

\* User.findById(hod): !hodUser || hodUser.role.name !== 'HOD'
NotAnHod(hod) == hod \notin DOMAIN users \/ users[hod].role # "HOD"

\* User.findByIdAndUpdate(hod, {department, groups: []})
AssignHod(us, hod, d) ==
    [us EXCEPT ![hod].department = d, ![hod].groups = {}]

\* POST /api/departments.  The body fields name and code reach the handler
\* trimmed by createDepartmentValidation; hod is None when the body has
\* none.
PostDepartment(user, body) ==
    LET op == "POST /api/departments"
        name == Trim(body.name)
        code == Trim(body.code)
        hod == body.hod
        id == DeptIdSeq[Cardinality(DOMAIN departments) + 1]
        existingDept == ExistingDepartment(name, ToUpperCase(code))
        fail(error) == DeptResult(users, departments, Response(op, 400, error, {}))
    IN  IF name = <<>>
            THEN DeptResult(users, departments,
                            ValidationFailed(op, "Department name is required"))
        ELSE IF Len(code) < 2 \/ Len(code) > 6
            THEN DeptResult(users, departments,
                            ValidationFailed(op, "Department code must be 2-6 characters"))
        ELSE IF existingDept # None
            THEN fail(IF departments[existingDept].name = name
                      THEN DEPT_NAME_EXISTS ELSE DEPT_CODE_EXISTS)
        ELSE IF hod # None /\ NotAnHod(hod) THEN fail(HOD_ROLE_REQUIRED)
        ELSE DeptResult(
                IF hod # None THEN AssignHod(users, hod, id) ELSE users,
                [d \in DOMAIN departments \cup {id} |->
                    IF d = id
                    THEN [name |-> Trim(name), code |-> ToUpperCase(code),
                          hod |-> hod, isActive |-> TRUE]
                    ELSE departments[d]],
                Response(op, 201, "", {id}))

\* PUT /api/departments/:id.  body.name and body.code are optional texts,
\* trimmed by updateDepartmentValidation; body.hod is Undefined when the
\* body has no hod field, Some(None) for null and Some(u) for a user id.
PutDepartment(user, id, body) ==
    LET op == "PUT /api/departments/:id"
        found == /\ id \in DOMAIN departments
                 /\ \/ users[user].role = "Admin"
                    \/ users[user].role = "HOD" /\ departments[id].hod = user
        department == departments[id]
        hasName == IsDefined(body.name) /\ Trim(Val(body.name)) # <<>>
        hasCode == IsDefined(body.code) /\ Trim(Val(body.code)) # <<>>
        name == Trim(Val(body.name))
        code == Trim(Val(body.code))
        \* the truthiness of hod: a user id
        hasHod == IsDefined(body.hod) /\ Val(body.hod) # None
        \* hod !== department.hod?.toString(); both sides are undefined when
        \* the body has no hod and the department has none
        hodDiffers ==
            IF IsDefined(body.hod)
            THEN Val(body.hod) = None \/ Val(body.hod) # department.hod
            ELSE department.hod # None
        fail(status, error) ==
            DeptResult(users, departments, Response(op, status, error, {}))
        updated == [department EXCEPT
                        !.name = IF hasName THEN Trim(name) ELSE @,
                        !.code = IF hasCode THEN ToUpperCase(code) ELSE @,
                        !.hod = IF IsDefined(body.hod) THEN Val(body.hod) ELSE @]
        unset == IF department.hod # None
                 THEN [users EXCEPT ![department.hod].department = None]
                 ELSE users
    IN  IF IsDefined(body.name) /\ Trim(Val(body.name)) = <<>>
            THEN DeptResult(users, departments,
                            ValidationFailed(op, "Department name cannot be empty"))
        ELSE IF IsDefined(body.code) /\ (Len(code) < 2 \/ Len(code) > 6)
            THEN DeptResult(users, departments,
                            ValidationFailed(op, "Department code must be 2-6 characters"))
        ELSE IF ~found THEN fail(404, DEPT_DENIED)
        ELSE IF hasName /\ name # department.name /\ DepartmentNamed(name)
            THEN fail(400, DEPT_NAME_EXISTS)
        ELSE IF hasCode /\ code # department.code /\ DepartmentCoded(ToUpperCase(code))
            THEN fail(400, DEPT_CODE_EXISTS)
        ELSE IF hasHod /\ Val(body.hod) # department.hod /\ NotAnHod(Val(body.hod))
            THEN fail(400, HOD_ROLE_REQUIRED)
        ELSE DeptResult(
                IF hodDiffers
                THEN IF hasHod THEN AssignHod(unset, Val(body.hod), id) ELSE unset
                ELSE users,
                [departments EXCEPT ![id] = updated],
                Response(op, 200, "", {id}))

\* ------------------------------------------------- analytics routes
\* The names the module binds at its top: the require() destructurings of
\* lines 1-4 and the router.  Evaluating any other free identifier throws a
\* ReferenceError.
AnalyticsImports ==
    {"express", "param", "query", "requireAuth", "requirePermission", "User",
     "Department", "Group", "Module", "Question", "Assessment",
     "AssessmentSubmission", "PerformanceMetric", "router"}

IsBound(name) == name \in AnalyticsImports

AnalyticsRoutes == {"department", "group", "student", "assessment"}

\* the Assessment collection the assessment analytics read
AssessmentDocs ==
    [a \in {"a1"} |-> [department |-> "D1", createdBy |-> "t1", groups |-> {"g1"},
                       totalPoints |-> 24]]

\* param('id').isMongoId() of the analytics routes
IsAnalyticsId(id) ==
    id \in Range(DeptIdSeq) \cup GroupIds \cup UserIds \cup DOMAIN AssessmentDocs

\* hasAccess of the four handlers
AnalyticsAccess(route, user, id) ==
    LET role == users[user].role
    IN  CASE role = "Admin" -> TRUE
          [] route = "department" ->
                role \in {"HOD", "Teacher"} /\ users[user].department = id
          [] route = "group" ->
                \/ role = "HOD" /\ id \in DOMAIN groups
                    /\ groups[id].department = users[user].department
                \/ role = "Teacher" /\ id \in DOMAIN groups /\ groups[id].teacher = user
          [] route = "student" ->
                \/ role = "HOD" /\ id \in DOMAIN users
                    /\ users[id].department = users[user].department
                \/ role = "Teacher" /\ id \in DOMAIN users
                    /\ \E g \in users[id].groups :
                            g \in DOMAIN groups /\ groups[g].teacher = user
                \/ role = "Student" /\ user = id
          [] OTHER ->
                \/ role = "HOD" /\ id \in DOMAIN AssessmentDocs
                    /\ AssessmentDocs[id].department = users[user].department
                \/ role = "Teacher" /\ id \in DOMAIN AssessmentDocs
                    /\ \/ AssessmentDocs[id].createdBy = user
                       \/ AssessmentDocs[id].groups \cap users[user].groups # {}

\* Department.findById, Group.findById, User.findById, Assessment.findById
AnalyticsRecordExists(route, id) ==
    CASE route = "department" -> id \in DOMAIN departments
      [] route = "group" -> id \in DOMAIN groups
      [] route = "student" -> id \in DOMAIN users
      [] OTHER -> id \in DOMAIN AssessmentDocs

\* A JavaScript number that is a fraction num / den with den > 0, and the
\* arithmetic of the statistics on it.  Rounding of the floating-point
\* operations is left out.
Rat(n, d) == [num |-> n, den |-> d]
RatEq(a, b) == a.num * b.den = b.num * a.den
RatLess(a, b) == a.num * b.den < b.num * a.den
RatLeq(a, b) == a.num * b.den <= b.num * a.den
\* (a + b) / 2
RatMean(a, b) == Rat(a.num * b.den + b.num * a.den, 2 * a.den * b.den)

\* Array.prototype.sort((a, b) => a - b): a stable sort, an element goes
\* behind the elements that do not compare greater than it
RECURSIVE InsertAscending(_, _)
InsertAscending(sorted, x) ==
    IF sorted = <<>> THEN <<x>>
    ELSE IF RatLess(x, Head(sorted)) THEN <<x>> \o sorted
    ELSE <<Head(sorted)>> \o InsertAscending(Tail(sorted), x)

RECURSIVE SortAscending(_)
SortAscending(list) ==
    IF list = <<>> THEN <<>>
    ELSE InsertAscending(SortAscending(SubSeq(list, 1, Len(list) - 1)), list[Len(list)])

\* calculateMedian(numbers): the value returned and the caller's array
\* after the call.  sorted is a copy ([...numbers]); sorted[mid] of the
\* code, counted from 0, is sorted[mid + 1] here.
calculateMedian(list) ==
    LET sorted == SortAscending(list)
        mid == Len(sorted) \div 2
    IN  [numbers |-> list,
         value |-> IF Len(sorted) % 2 # 0
                   THEN sorted[mid + 1]
                   ELSE RatMean(sorted[mid], sorted[mid + 1])]

\* AssessmentSubmission.find({assessment: id, status: 'submitted'})
\*   .sort({totalScore: -1})
RECURSIVE InsertByScore(_, _)
InsertByScore(sorted, x) ==
    IF sorted = <<>> THEN <<x>>
    ELSE IF x.totalScore > Head(sorted).totalScore THEN <<x>> \o sorted
    ELSE <<Head(sorted)>> \o InsertByScore(Tail(sorted), x)

RECURSIVE SortByScore(_)
SortByScore(list) ==
    IF list = <<>> THEN <<>>
    ELSE InsertByScore(SortByScore(SubSeq(list, 1, Len(list) - 1)), list[Len(list)])

SubmittedOf(id) ==
    LET Submitted(sub) == sub.assessment = id /\ sub.status = "submitted"
    IN  SortByScore(SelectSeq(submissions, Submitted))

\* (s.totalScore / assessment.totalPoints) * 100
Percentage(sub, id) == Rat(sub.totalScore * 100, AssessmentDocs[id].totalPoints)

\* the min and max of scoreRanges, in the order of the labels 0-20, 21-40,
\* 41-60, 61-80, 81-100
scoreRanges ==
    <<[min |-> 0, max |-> 20], [min |-> 21, max |-> 40], [min |-> 41, max |-> 60],
      [min |-> 61, max |-> 80], [min |-> 81, max |-> 100]>>

\* percentage >= range.min && percentage <= range.max
InRange(percentage, range) ==
    /\ RatLeq(Rat(range.min, 1), percentage)
    /\ RatLeq(percentage, Rat(range.max, 1))

\* scoreDistribution: the count of each range
scoreDistribution(id) ==
    LET subs == SubmittedOf(id)
    IN  [r \in DOMAIN scoreRanges |->
            Cardinality({i \in DOMAIN subs :
                            InRange(Percentage(subs[i], id), scoreRanges[r])})]

\* scores and medianScore
medianScore(id) ==
    LET subs == SubmittedOf(id)
        scores == [i \in DOMAIN subs |-> Percentage(subs[i], id)]
    IN  IF Len(scores) > 0 THEN calculateMedian(scores).value ELSE Rat(0, 1)

\* the free identifiers a handler evaluates after its record lookup
AnalyticsUses(route) ==
    IF route \in {"department", "student"} THEN {"mongoose"} ELSE {}

\* GET /api/analytics/<route>/:id.  Each handler opens its try block with
\* validationResult(req); an exception inside the block is answered 500 by
\* its catch.  data stands for the analytics data of the record.
GetAnalytics(route, user, id) ==
    LET op == CASE route = "department" -> "GET /api/analytics/department/:id"
                [] route = "group" -> "GET /api/analytics/group/:id"
                [] route = "student" -> "GET /api/analytics/student/:id"
                [] OTHER -> "GET /api/analytics/assessment/:id"
        answer(status, error, data) == Result(modules, Response(op, status, error, data))
        failed ==
            answer(500,
                   CASE route = "department" -> "Failed to fetch department analytics"
                     [] route = "group" -> "Failed to fetch group analytics"
                     [] route = "student" -> "Failed to fetch student analytics"
                     [] OTHER -> "Failed to fetch assessment analytics",
                   {})
        denied ==
            answer(403,
                   CASE route = "department" -> "Access denied to department analytics"
                     [] route = "group" -> "Access denied to group analytics"
                     [] route = "student" -> "Access denied to student analytics"
                     [] OTHER -> "Access denied to assessment analytics",
                   {})
        missing ==
            answer(404,
                   CASE route = "department" -> "Department not found"
                     [] route = "group" -> "Group not found"
                     [] route = "student" -> "Student not found"
                     [] OTHER -> "Assessment not found",
                   {})
    IN  IF ~IsBound("validationResult") THEN failed
        ELSE IF ~IsAnalyticsId(id) THEN Result(modules, ValidationFailed(op, "Invalid ID"))
        ELSE IF ~AnalyticsAccess(route, user, id) THEN denied
        ELSE IF ~AnalyticsRecordExists(route, id) THEN missing
        ELSE IF \E name \in AnalyticsUses(route) : ~IsBound(name) THEN failed
        ELSE IF route = "assessment"
        THEN Result(modules,
                    [Response(op, 200, "", {id}) EXCEPT
                        !.medianScore = Some(medianScore(id)),
                        !.scoreDistribution = scoreDistribution(id)])
        ELSE answer(200, "", {id})

\* ------------------------------------------------- AuthContext.tsx
\* The AuthProvider of the React frontend: the reducer state, the three
\* localStorage keys of a session, and the asynchronous calls in progress.
\* The answers of apiService.auth are well formed: a login or register
\* that succeeds answers a user, a token and a refreshToken, getProfile
\* answers a user.  null is None.
Sessions ==
    {[user |-> "alice", token |-> "tokenA", refreshToken |-> "refreshA"],
     [user |-> "bob", token |-> "tokenB", refreshToken |-> "refreshB"]}

Profiles == {"alice", "bob"}

\* "mount" is the effect that runs checkAuthStatus, not yet run;
\* "getProfile" is checkAuthStatus waiting for apiService.auth.getProfile()
CallKinds == {"mount", "getProfile", "login", "register", "refreshProfile"}

NoCalls == [k \in CallKinds |-> 0]

RECURSIVE SumCalls(_, _)
SumCalls(c, kinds) ==
    IF kinds = {} THEN 0
    ELSE LET k == CHOOSE x \in kinds : TRUE
         IN  c[k] + SumCalls(c, kinds \ {k})

Started(k) == [calls EXCEPT ![k] = @ + 1]
Finished(k) == [calls EXCEPT ![k] = @ - 1]

EmptyStorage == [token |-> None, refreshToken |-> None, user |-> None]

\* the three localStorage.setItem calls of login and register
StoreSession(sess) ==
    [token |-> sess.token, refreshToken |-> sess.refreshToken, user |-> sess.user]

initialState(storage) ==
    [user |-> None, token |-> storage.token, refreshToken |-> storage.refreshToken,
     isAuthenticated |-> FALSE, isLoading |-> TRUE]

AuthAction(type, payload) == [type |-> type, payload |-> payload]

authReducer(s, action) ==
    CASE action.type = "AUTH_START" -> [s EXCEPT !.isLoading = TRUE]
      [] action.type = "AUTH_SUCCESS" ->
            [s EXCEPT !.user = action.payload.user,
                      !.token = action.payload.token,
                      !.refreshToken = action.payload.refreshToken,
                      !.isAuthenticated = TRUE,
                      !.isLoading = FALSE]
      [] action.type \in {"AUTH_FAILURE", "LOGOUT"} ->
            [s EXCEPT !.user = None, !.token = None, !.refreshToken = None,
                      !.isAuthenticated = FALSE, !.isLoading = FALSE]
      [] action.type = "UPDATE_USER" -> [s EXCEPT !.user = action.payload]
      [] action.type = "SET_LOADING" -> [s EXCEPT !.isLoading = action.payload]
      [] OTHER -> s

\* checkAuthStatus up to its await: the three keys are read, and with all
\* three present AUTH_SUCCESS is dispatched and getProfile is awaited
CheckAuthStatus ==
    /\ calls["mount"] > 0
    /\ IF /\ localStorage.token # None
          /\ localStorage.refreshToken # None
          /\ localStorage.user # None
       THEN /\ state' = authReducer(state, AuthAction("AUTH_SUCCESS", localStorage))
            /\ calls' = [calls EXCEPT !["mount"] = 0, !["getProfile"] = 1]
       ELSE /\ state' = authReducer(state, AuthAction("AUTH_FAILURE", None))
            /\ calls' = [calls EXCEPT !["mount"] = 0]
    /\ UNCHANGED localStorage

\* getProfile of checkAuthStatus resolves: nothing more is done
CheckAuthResolved ==
    /\ calls["getProfile"] > 0
    /\ calls' = Finished("getProfile")
    /\ UNCHANGED <<state, localStorage>>

\* getProfile of checkAuthStatus rejects: the catch clears the three keys
\* and dispatches AUTH_FAILURE
CheckAuthRejected ==
    /\ calls["getProfile"] > 0
    /\ calls' = Finished("getProfile")
    /\ localStorage' = EmptyStorage
    /\ state' = authReducer(state, AuthAction("AUTH_FAILURE", None))

\* login and register up to their await: AUTH_START is dispatched
AuthStart(kind) ==
    /\ calls["mount"] = 0
    /\ SumCalls(calls, CallKinds) < MaxCalls
    /\ state' = authReducer(state, AuthAction("AUTH_START", None))
    /\ calls' = Started(kind)
    /\ UNCHANGED localStorage

\* the request resolves: the three keys are stored, AUTH_SUCCESS is dispatched
AuthResolved(kind) ==
    \E sess \in Sessions :
        /\ calls[kind] > 0
        /\ calls' = Finished(kind)
        /\ localStorage' = StoreSession(sess)
        /\ state' = authReducer(state, AuthAction("AUTH_SUCCESS", sess))

\* the request rejects: the catch dispatches AUTH_FAILURE and rethrows
AuthRejected(kind) ==
    /\ calls[kind] > 0
    /\ calls' = Finished(kind)
    /\ state' = authReducer(state, AuthAction("AUTH_FAILURE", None))
    /\ UNCHANGED localStorage

\* logout(): the three keys are removed and LOGOUT is dispatched; the
\* logout request is not awaited and its outcome is ignored
logout ==
    /\ localStorage' = EmptyStorage
    /\ state' = authReducer(state, AuthAction("LOGOUT", None))

\* refreshProfile up to its await
RefreshStart ==
    /\ calls["mount"] = 0
    /\ SumCalls(calls, CallKinds) < MaxCalls
    /\ calls' = Started("refreshProfile")
    /\ UNCHANGED <<state, localStorage>>

\* getProfile of refreshProfile resolves: the user key is stored and
\* UPDATE_USER is dispatched
RefreshResolved ==
    \E updatedUser \in Profiles :
        /\ calls["refreshProfile"] > 0
        /\ calls' = Finished("refreshProfile")
        /\ localStorage' = [localStorage EXCEPT !.user = updatedUser]
        /\ state' = authReducer(state, AuthAction("UPDATE_USER", updatedUser))

\* getProfile of refreshProfile rejects: the catch calls logout()
RefreshRejected ==
    /\ calls["refreshProfile"] > 0
    /\ calls' = Finished("refreshProfile")
    /\ logout

\* ------------------------------------------------------------- state
\* The seeded database: one Admin, the HOD of D1, a Teacher in each
\* department, a Student of D1; g1 is a D1 group taught by t1 with student
\* s1, g2 a D2 group taught by t2.
InitUsers ==
    [u \in UserIds |->
        CASE u = "admin" -> [role |-> "Admin", department |-> None, groups |-> {}]
          [] u = "hod1" -> [role |-> "HOD", department |-> "D1", groups |-> {}]
          [] u = "t1" -> [role |-> "Teacher", department |-> "D1", groups |-> {"g1"}]
          [] u = "t2" -> [role |-> "Teacher", department |-> "D2", groups |-> {"g2"}]
          [] OTHER -> [role |-> "Student", department |-> "D1", groups |-> {"g1"}]]

InitDepartments ==
    [d \in Depts |->
        IF d = "D1"
        THEN [name |-> <<"m">>, code |-> <<"C", "S">>, hod |-> "hod1", isActive |-> TRUE]
        ELSE [name |-> <<"p">>, code |-> <<"E", "E">>, hod |-> None, isActive |-> TRUE]]

InitGroups ==
    [g \in GroupIds |->
        IF g = "g1" THEN [department |-> "D1", teacher |-> "t1", isActive |-> TRUE]
        ELSE [department |-> "D2", teacher |-> "t2", isActive |-> TRUE]]

InitQuestions ==
    [q \in QuestionIds |->
        [department |-> IF q = "q1" THEN "D1" ELSE "D2", isActive |-> TRUE]]

InitNotes ==
    [n \in NoteIds |->
        [department |-> IF n = "n1" THEN "D1" ELSE "D2", isActive |-> TRUE]]

InitWorld ==
    /\ users = InitUsers
    /\ departments = InitDepartments
    /\ groups = InitGroups
    /\ questions = InitQuestions
    /\ notes = InitNotes

NoResponse == Response("", 0, "", {})

\* no submission has been made, no median is being calculated
NoStatistics ==
    /\ submissions = <<>>
    /\ numbers = <<>>

\* the frontend is not loaded
NoFrontend ==
    /\ localStorage = EmptyStorage
    /\ state = initialState(EmptyStorage)
    /\ calls = NoCalls

\* a handler's result becomes the new state
Apply(r) ==
    /\ modules' = r.modules
    /\ resp' = r.resp
    /\ UNCHANGED <<world, notices, now, statistics, frontend>>

\* the same for a handler of the notice routes
ApplyNotice(r) ==
    /\ notices' = r.notices
    /\ resp' = r.resp
    /\ UNCHANGED <<world, modules, now, statistics, frontend>>

\* request bodies
CreateBody(title, dept, gs, tags, prereqs) ==
    [title |-> title, description |-> Undefined, department |-> dept,
     groups |-> gs, difficulty |-> "beginner", estimatedHours |-> Undefined,
     tags |-> tags, prerequisites |-> prereqs, sortOrder |-> 0]

EmptyUpdate ==
    [title |-> Undefined, description |-> Undefined, groups |-> Undefined,
     difficulty |-> Undefined, estimatedHours |-> Undefined, tags |-> Undefined,
     prerequisites |-> Undefined, sortOrder |-> Undefined]

PrereqLists == SeqsUpTo(ModuleIds, MaxPrereqs)

\* ------------------------------------------------- prerequisite graph runs
\* An Admin creates modules in either department, replaces prerequisite
\* lists and deletes modules; an active assessment may reference module 1.
GraphInit ==
    /\ InitWorld
    /\ assessed \in {{}, {1}}
    /\ modules = <<>>
    /\ notices = <<>>
    /\ now = 0
    /\ resp = NoResponse
    /\ NoStatistics
    /\ NoFrontend

GraphCreate ==
    \E d \in Depts, p \in PrereqLists :
        /\ Len(modules) < MaxModules
        /\ Apply(PostModule("admin", CreateBody(<<"a">>, d, <<>>, <<>>, p)))

GraphUpdate ==
    \E id \in ModuleIds, p \in PrereqLists :
        Apply(PutModule("admin", id, [EmptyUpdate EXCEPT !.prerequisites = Some(p)]))

GraphDelete ==
    \E id \in ModuleIds : Apply(DeleteModule("admin", id))

GraphNext == GraphCreate \/ GraphUpdate \/ GraphDelete

SpecGraph == GraphInit /\ [][GraphNext]_vars

\* ------------------------------------------------- prerequisite graph claims
\* the modules m lists as prerequisites
Prereqs(ms, m) == Range(ms[m].prerequisites) \cap DOMAIN ms

\* the modules reachable from m by following prerequisites n or fewer times,
\* at least once
RECURSIVE ReachWithin(_, _, _)
ReachWithin(ms, m, n) ==
    IF n = 0 THEN {}
    ELSE LET near == ReachWithin(ms, m, n - 1)
         IN  near \cup Prereqs(ms, m) \cup UNION {Prereqs(ms, k) : k \in near}

Reaches(ms, m) == ReachWithin(ms, m, Len(ms))

HasPrerequisiteCycle(ms) == \E m \in DOMAIN ms : m \in Reaches(ms, m)

\* C1: after any sequence of POST /api/modules and PUT /api/modules/:id
\* requests no module reaches itself by following prerequisites.
C1_NoPrerequisiteCycle == ~HasPrerequisiteCycle(modules)

\* what C5 asks of a prerequisites list for the update of module id
DistinctActiveSameDepartment(p, id) ==
    /\ Cardinality(Range(p)) = Len(p)
    /\ \A k \in Range(p) :
        /\ k \in DOMAIN modules
        /\ k # id
        /\ modules[k].isActive
        /\ modules[k].department = modules[id].department

\* C5: PUT /api/modules/:id passes prerequisite validation exactly when every
\* listed id is a distinct, active module of the updated module's department
\* other than the updated module.
C5_ValidationExact ==
    \A id \in DOMAIN modules, p \in PrereqLists :
        LET r == PutModule("admin", id, [EmptyUpdate EXCEPT !.prerequisites = Some(p)])
        IN  (r.resp.error # PREREQ_INVALID) <=> DistinctActiveSameDepartment(p, id)

\* the guard of C9: an active assessment references the module or another
\* active module lists it as a prerequisite
DeleteBlocked(id) ==
    \/ id \in assessed
    \/ \E m \in DOMAIN modules :
        m # id /\ modules[m].isActive /\ id \in Range(modules[m].prerequisites)

\* C9: DELETE /api/modules/:id by an authorised caller answers 400 and keeps
\* the module as it is when an active assessment references the module or
\* another active module lists it as a prerequisite, and otherwise changes
\* only the module's isActive flag, to false.
C9_GuardedSoftDelete ==
    \A u \in UserIds, id \in DOMAIN modules :
        FindModuleForChange(u, id) =>
            LET r == DeleteModule(u, id)
            IN  IF DeleteBlocked(id)
                THEN r.resp.status = 400 /\ r.modules = modules
                ELSE /\ r.resp.status = 200
                     /\ r.modules = [modules EXCEPT ![id].isActive = FALSE]

\* ------------------------------------------------- access-control runs
\* Teacher t1 creates modules in either department, and every user tries
\* the module-changing requests on every module.  requirePermission(
\* 'manage_modules') of POST / and DELETE /:id belongs to middleware/auth
\* and is taken to pass the request on to the handler.
AccessInit ==
    /\ InitWorld
    /\ assessed = {}
    /\ modules = <<>>
    /\ notices = <<>>
    /\ now = 0
    /\ resp = NoResponse
    /\ NoStatistics
    /\ NoFrontend

AccessCreate ==
    \E u \in {"t1"}, d \in Depts :
        /\ Len(modules) < MaxOwned
        /\ Apply(PostModule(u, CreateBody(<<"a">>, d, <<>>, <<>>, <<>>)))

AccessUpdate ==
    \E u \in UserIds, id \in 1..MaxOwned :
        Apply(PutModule(u, id, [EmptyUpdate EXCEPT !.title = Some(<<" a">>)]))

AccessDelete ==
    \E u \in UserIds, id \in 1..MaxOwned : Apply(DeleteModule(u, id))

AccessAddQuestions ==
    \E u \in UserIds, id \in 1..MaxOwned, q \in QuestionIds :
        Apply(PostQuestions(u, id, <<q>>))

AccessRemoveQuestion ==
    \E u \in UserIds, id \in 1..MaxOwned, q \in QuestionIds :
        Apply(DeleteQuestion(u, id, q))

AccessGetDepartment ==
    \E u \in UserIds, d \in Depts : Apply(GetDepartment(u, d))

AccessGetDepartmentGroups ==
    \E u \in UserIds, d \in Depts : Apply(GetDepartmentGroups(u, d))

AccessNext ==
    \/ AccessCreate
    \/ AccessUpdate
    \/ AccessDelete
    \/ AccessAddQuestions
    \/ AccessRemoveQuestion
    \/ AccessGetDepartment
    \/ AccessGetDepartmentGroups

SpecAccess == AccessInit /\ [][AccessNext]_vars

\* the rule of C3: who may change module id
MayChange(u, id) ==
    \/ users[u].role = "Admin"
    \/ users[u].role = "HOD" /\ modules[id].department = users[u].department
    \/ users[u].role = "Teacher" /\ modules[id].createdBy = u

\* the results of every module-changing request of user u on module id
ChangeResults(u, id) ==
    {PutModule(u, id, [EmptyUpdate EXCEPT !.title = Some(<<"b">>)]),
     PutModule(u, id, [EmptyUpdate EXCEPT !.prerequisites = Some(<<>>)]),
     DeleteModule(u, id)}
    \cup {PostQuestions(u, id, <<q>>) : q \in QuestionIds}
    \cup {DeleteQuestion(u, id, q) : q \in QuestionIds}
    \cup {PostNotes(u, id, <<n>>) : n \in NoteIds}
    \cup {DeleteNote(u, id, n) : n \in NoteIds}

NoticeBody(targetType, roles, dept, gs) ==
    [title |-> <<"a">>, content |-> <<"b">>, targetType |-> targetType,
     targetRoles |-> roles, department |-> dept, groups |-> gs,
     priority |-> "medium", expiresAt |-> Undefined]

NoticeBodies ==
    {NoticeBody("all", <<>>, None, <<>>),
     NoticeBody("department", <<>>, "D1", <<>>),
     NoticeBody("department", <<>>, None, <<>>),
     NoticeBody("group", <<>>, None, <<"g1">>),
     NoticeBody("group", <<>>, None, <<>>),
     NoticeBody("role", <<"HOD">>, None, <<>>),
     NoticeBody("role", <<>>, None, <<>>)}

\* the body of a PUT request; targetType and isActive stand for the fields
\* a body may carry besides those of updateNoticeValidation
EmptyNoticeUpdate ==
    [title |-> Undefined, content |-> Undefined, priority |-> Undefined,
     expiresAt |-> Undefined, targetType |-> Undefined, isActive |-> Undefined]

NoticeQuery(search, targetType, unread, isActive) ==
    [search |-> search, department |-> Undefined, group |-> Undefined,
     targetType |-> targetType, priority |-> Undefined, unread |-> unread,
     isActive |-> isActive, postedBy |-> Undefined]

NoticeInit ==
    /\ InitWorld
    /\ assessed = {}
    /\ modules = <<>>
    /\ notices = <<>>
    /\ now = 0
    /\ resp = NoResponse
    /\ NoStatistics
    /\ NoFrontend

NoticeCreate ==
    \E u \in {"hod1", "t1"}, body \in NoticeBodies :
        /\ Len(notices) < MaxNotices
        /\ ApplyNotice(PostNotice(u, body))

NoticeUpdate ==
    \E u \in UserIds, id \in NoticeIds :
        ApplyNotice(PutNotice(u, id, [EmptyNoticeUpdate EXCEPT !.title = Some(<<"a", " ">>)]))

NoticeDelete ==
    \E u \in UserIds, id \in NoticeIds : ApplyNotice(DeleteNotice(u, id))

NoticeList ==
    \E u \in UserIds, active \in {Undefined, Some("false")} :
        ApplyNotice(GetNotices(u, NoticeQuery(Undefined, Undefined, Undefined, active)))

NoticeGetPath ==
    \E u \in UserIds, seg \in NoticeIds \cup {"unread-count", "stats"} :
        ApplyNotice(DispatchNoticeGet(u, seg))

NoticeNext ==
    NoticeCreate \/ NoticeUpdate \/ NoticeDelete \/ NoticeList \/ NoticeGetPath

SpecNotices == NoticeInit /\ [][NoticeNext]_vars

\* a notice whose target type lacks its target
TargetMissing(n) ==
    \/ n.targetType = "department" /\ n.department = None
    \/ n.targetType = "group" /\ Len(n.groups) = 0
    \/ n.targetType = "role" /\ Len(n.targetRoles) = 0

\* C8: every stored notice of target type 'department' has a department,
\* of type 'group' a group and of type 'role' a target role, and a create
\* request that lacks the target is answered 400 and creates no notice.
C8_TargetPresent ==
    /\ \A i \in DOMAIN notices : ~TargetMissing(notices[i])
    /\ \A u \in UserIds, body \in NoticeBodies :
        TargetMissing(body) =>
            LET r == PostNotice(u, body)
            IN  r.resp.status = 400 /\ r.notices = notices

\* a notice of each targeted type is stored and a create request without
\* its target was refused
C8_Witness ==
    /\ resp.op = "POST /api/notices"
    /\ resp.status = 400
    /\ \E i \in DOMAIN notices : notices[i].targetType \in {"department", "group", "role"}

\* the rule of C10: who may delete the i-th notice
MayDeleteNotice(u, i) ==
    \/ users[u].role = "Admin"
    \/ users[u].role \in {"HOD", "Teacher"} /\ notices[i].postedBy = u

\* the list requests without the isActive parameter
ListQueriesDefaultActive ==
    {NoticeQuery(s, t, unread, Undefined) :
        s \in {Undefined, Some(<<"a">>)},
        t \in {Undefined, Some("all")},
        unread \in {Undefined, Some("true")}}

\* who is let through by DELETE /api/notices/:id, and what it changes
C10_DeleteRule ==
    \A i \in DOMAIN notices, u \in UserIds :
        LET r == DeleteNotice(u, NoticeIdSeq[i])
        IN  IF MayDeleteNotice(u, i)
            THEN /\ r.resp.status = 200
                 /\ r.notices = [notices EXCEPT ![i].isActive = FALSE]
            ELSE /\ r.resp.status = 404
                 /\ r.resp.error = NOTICE_DENIED
                 /\ r.notices = notices

\* a deactivated notice is in no list answered to an Admin, HOD or Teacher
C10_DeletedNotListed ==
    \A i \in DOMAIN notices :
        ~notices[i].isActive =>
            \A u \in UserIds, q \in ListQueriesDefaultActive :
                users[u].role \in {"Admin", "HOD", "Teacher"} =>
                    NoticeIdSeq[i] \notin GetNotices(u, q).resp.data

\* no step of the notice routes reactivates a notice
C10_StaysDeleted ==
    \A i \in DOMAIN notices : ~notices[i].isActive => ~notices'[i].isActive

\* C10: DELETE /api/notices/:id sets isActive to false, and nothing else,
\* for an Admin and for the HOD or Teacher who posted the notice, and is
\* answered 404 'Notice not found or access denied' without a change for
\* anyone else; a deactivated notice stays so and GET /api/notices without
\* the isActive parameter returns it to no Admin, HOD or Teacher.
C10_SoftDelete ==
    /\ [](C10_DeleteRule /\ C10_DeletedNotListed)
    /\ [][C10_StaysDeleted]_vars

\* a notice was deleted by its poster and a list request was answered since
C10_Witness ==
    /\ resp.op = "GET /api/notices"
    /\ \E i \in DOMAIN notices :
        ~notices[i].isActive /\ notices[i].postedBy = "t1"
    /\ \E i \in DOMAIN notices : notices[i].isActive /\ NoticeIdSeq[i] \in resp.data

\* C6: GET /api/notices/unread-count is handled by the unread-count
\* handler and GET /api/notices/stats by the stats handler: each answers
\* with success and is never answered with the 'Invalid notice ID'
\* validation error of GET /api/notices/:id.
C6_StaticRoutesReached ==
    \A u \in UserIds :
        LET unread == DispatchNoticeGet(u, "unread-count").resp
            stats == DispatchNoticeGet(u, "stats").resp
        IN  /\ unread = GetUnreadCount(u).resp
            /\ stats = GetNoticeStats(u).resp
            /\ unread.details # NOTICE_ID_INVALID
            /\ stats.details # NOTICE_ID_INVALID

\* the department is the own one of a Teacher or Student, or one the HOD heads
OwnDepartment(u, d) ==
    IF users[u].role = "HOD" THEN departments[d].hod = u
    ELSE users[u].department = d

\* C2: a Teacher or Student who asks for a department other than their own,
\* and an HOD who asks for a department they do not head, is answered 404
\* 'Department not found or access denied' by GET /api/departments/:id and
\* GET /api/departments/:id/groups and receives nothing of that department.
C2_ForeignDepartmentDenied ==
    \A u \in UserIds, d \in DOMAIN departments :
        (users[u].role # "Admin" /\ ~OwnDepartment(u, d)) =>
            \A r \in {GetDepartment(u, d).resp, GetDepartmentGroups(u, d).resp} :
                /\ r.status = 404
                /\ r.error = DEPT_DENIED
                /\ r.data \cap ({d} \cup GroupsOfDepartment(d)) = {}

\* ------------------------------------------------- list runs
\* The Admin and Teacher t1 create modules with and without a group, the
\* Admin deletes modules, and every user lists the modules.
ModuleQuery(search, department, group, createdBy, tags, isActive, hasQuestions) ==
    [search |-> search, department |-> department, group |-> group,
     difficulty |-> Undefined, createdBy |-> createdBy, tags |-> tags,
     isActive |-> isActive, hasQuestions |-> hasQuestions]

EmptyModuleQuery ==
    ModuleQuery(Undefined, Undefined, Undefined, Undefined, Undefined,
                Undefined, Undefined)

ListInit ==
    /\ InitWorld
    /\ assessed = {}
    /\ modules = <<>>
    /\ notices = <<>>
    /\ now = 0
    /\ resp = NoResponse
    /\ NoStatistics
    /\ NoFrontend

ListCreate ==
    \E u \in {"admin", "t1"}, d \in Depts, gs \in {<<>>, <<"g1">>, <<"g2">>} :
        /\ Len(modules) < MaxListed
        /\ Apply(PostModule(u, CreateBody(<<"a">>, d, gs, <<<<"X">>>>, <<>>)))

ListDelete ==
    \E id \in 1..MaxListed : Apply(DeleteModule("admin", id))

ListModules ==
    \E u \in UserIds :
        \E q \in {EmptyModuleQuery,
                  [EmptyModuleQuery EXCEPT !.group = Some("g2")],
                  [EmptyModuleQuery EXCEPT !.department = Some("D2")],
                  [EmptyModuleQuery EXCEPT !.isActive = Some("false")]} :
            Apply(GetModules(u, q))

ListNext == ListCreate \/ ListDelete \/ ListModules

SpecList == ListInit /\ [][ListNext]_vars

\* the scope of C4: the modules a user may be shown
InScope(u, m) ==
    CASE users[u].role = "Admin" -> TRUE
      [] users[u].role = "HOD" -> m.department = users[u].department
      [] users[u].role = "Teacher" ->
            m.createdBy = u \/ Range(m.groups) \cap users[u].groups # {}
      [] OTHER -> Range(m.groups) \cap users[u].groups # {}

ModuleQueries ==
    {ModuleQuery(s, d, g, c, t, a, h) :
        s \in {Undefined, Some(<<"a">>)},
        d \in {Undefined, Some("D2")},
        g \in {Undefined, Some("g2")},
        c \in {Undefined, Some("admin")},
        t \in {Undefined, Some(<<<<"x">>>>)},
        a \in {Undefined, Some("false")},
        h \in {Undefined, Some("true")}}

\* C4: whatever the query parameters, GET /api/modules returns a Student
\* only modules of their groups, a Teacher only modules they created or of
\* their groups, and an HOD only modules of their department.
C4_ListWithinScope ==
    \A u \in UserIds, q \in ModuleQueries :
        \A m \in GetModules(u, q).resp.data : InScope(u, modules[m])

\* a list request with the group parameter was answered while a module of
\* that group existed that is outside the scope of Teacher t1
C4_Witness ==
    /\ resp.op = "GET /api/modules"
    /\ resp.data # {}
    /\ \E m \in DOMAIN modules : ~InScope("t1", modules[m]) /\ modules[m].isActive
    /\ \E m \in DOMAIN modules : ~InScope("s1", modules[m]) /\ InScope("t1", modules[m])
    /\ \E m \in DOMAIN modules : ~InScope("hod1", modules[m])

\* ------------------------------------------------- search runs
\* Teacher t1 creates modules and posts notices to all users with one of
\* two titles; every user lists the modules and the notices with a search
\* text.
SearchInit == ListInit

SearchCreateModule ==
    \E title \in {<<"a">>, <<"b">>} :
        /\ Len(modules) < MaxListed
        /\ Apply(PostModule("t1", CreateBody(title, "D1", <<"g1">>, <<>>, <<>>)))

SearchCreateNotice ==
    \E title \in {<<"a">>, <<"b">>} :
        /\ Len(notices) < MaxNotices
        /\ ApplyNotice(PostNotice("t1",
              [NoticeBody("all", <<>>, None, <<>>) EXCEPT !.title = title,
                                                          !.content = title]))

SearchModules ==
    \E u \in UserIds, text \in {<<"a">>, <<"b">>} :
        Apply(GetModules(u, [EmptyModuleQuery EXCEPT !.search = Some(text)]))

SearchNotices ==
    \E u \in UserIds, text \in {<<"a">>, <<"b">>} :
        ApplyNotice(GetNotices(u, NoticeQuery(Some(text), Undefined, Undefined,
                                              Undefined)))

SearchNext ==
    SearchCreateModule \/ SearchCreateNotice \/ SearchModules \/ SearchNotices

SpecSearch == SearchInit /\ [][SearchNext]_vars

\* C7: for every role, every item GET /api/modules and GET /api/notices
\* return for a search text matches that text: a module in its title, its
\* description or a tag, a notice in its title or its content.
C7_SearchApplied ==
    \A u \in UserIds, text \in {<<"a">>, <<"b">>} :
        /\ \A m \in GetModules(u, [EmptyModuleQuery EXCEPT !.search = Some(text)]).resp.data :
            ModuleMatchesSearch(modules[m], text)
        /\ \A id \in GetNotices(u, NoticeQuery(Some(text), Undefined, Undefined,
                                               Undefined)).resp.data :
            NoticeMatchesSearch(notices[NoticeIndex(id)], text)

\* ------------------------------------------------- department runs
\* The Admin creates departments; the Admin, the HOD of D1 and a Teacher
\* update them: a name, a code or the hod.
ApplyDept(r) ==
    /\ users' = r.users
    /\ departments' = r.departments
    /\ resp' = r.resp
    /\ UNCHANGED <<groups, questions, notes, assessed, modules, notices, now,
                   statistics, frontend>>

DeptNames == {<<"m">>, <<"q">>, <<"q", " ">>}
DeptCodes == {<<"c", "s">>, <<"s", "e">>}
DeptHods == {"hod1", "t1"}

DeptBody(name, code, hod) ==
    [name |-> name, code |-> code, description |-> Undefined, hod |-> hod]

DeptUpdates ==
    {DeptBody(Some(n), Undefined, Undefined) : n \in DeptNames}
    \cup {DeptBody(Undefined, Some(c), Undefined) : c \in DeptCodes}
    \cup {DeptBody(Undefined, Undefined, Some(h)) : h \in DeptHods \cup {None}}

DeptInit ==
    /\ InitWorld
    /\ assessed = {}
    /\ modules = <<>>
    /\ notices = <<>>
    /\ now = 0
    /\ resp = NoResponse
    /\ NoStatistics
    /\ NoFrontend

DeptCreate ==
    \E n \in DeptNames, c \in DeptCodes, h \in DeptHods \cup {None} :
        /\ Cardinality(DOMAIN departments) < MaxDepartments
        /\ ApplyDept(PostDepartment("admin", DeptBody(n, c, h)))

DeptUpdate ==
    \E u \in {"admin", "hod1", "t1"}, id \in DOMAIN departments, b \in DeptUpdates :
        ApplyDept(PutDepartment(u, id, b))

DeptNext == DeptCreate \/ DeptUpdate

SpecDepartments == DeptInit /\ [][DeptNext]_vars

\* a rejected request: answered 400 with one of the two messages, nothing
\* written
RejectedAsDuplicate(r) ==
    /\ r.resp.status = 400
    /\ r.resp.error \in {DEPT_NAME_EXISTS, DEPT_CODE_EXISTS}
    /\ r.users = users
    /\ r.departments = departments

\* whether a department other than id has the name, or the code in upper case
NameTaken(name, id) ==
    \E d \in DOMAIN departments \ {id} : departments[d].name = Trim(name)
CodeTaken(code, id) ==
    \E d \in DOMAIN departments \ {id} : departments[d].code = ToUpperCase(Trim(code))

\* C11: no two departments have the same name or the same code and every
\* stored code is upper case; a POST /api/departments or PUT
\* /api/departments/:id request that would introduce a duplicate is
\* answered 400 'Department name already exists' or 'Department code
\* already exists' and changes nothing.
C11_UniqueNameAndCode ==
    /\ \A d1, d2 \in DOMAIN departments :
        d1 # d2 => /\ departments[d1].name # departments[d2].name
                   /\ departments[d1].code # departments[d2].code
    /\ \A d \in DOMAIN departments :
        departments[d].code = ToUpperCase(departments[d].code)
    /\ \A n \in DeptNames, c \in DeptCodes, h \in DeptHods \cup {None} :
        (NameTaken(n, None) \/ CodeTaken(c, None)) =>
            RejectedAsDuplicate(PostDepartment("admin", DeptBody(n, c, h)))
    /\ \A u \in {"admin", "hod1"}, id \in DOMAIN departments, b \in DeptUpdates :
        (\/ IsDefined(b.name) /\ NameTaken(Val(b.name), id)
         \/ IsDefined(b.code) /\ CodeTaken(Val(b.code), id)) =>
            LET r == PutDepartment(u, id, b)
            IN  \/ RejectedAsDuplicate(r)
                \/ r.resp.status = 404 /\ r.departments = departments /\ r.users = users

\* a third department was created with its code put in upper case, and a
\* later request was rejected as a duplicate
C11_Witness ==
    /\ Cardinality(DOMAIN departments) = 3
    /\ \E d \in DOMAIN departments : departments[d].code = <<"S", "E">>
    /\ resp.status = 400
    /\ resp.error \in {DEPT_NAME_EXISTS, DEPT_CODE_EXISTS}

\* C19: for every department whose hod is user u, u's department field
\* refers to that department, and no user is the hod of two departments.
C19_HodConsistent ==
    /\ \A d \in DOMAIN departments :
        departments[d].hod # None => users[departments[d].hod].department = d
    /\ \A d1, d2 \in DOMAIN departments :
        (d1 # d2 /\ departments[d1].hod # None) =>
            departments[d1].hod # departments[d2].hod

\* C20: a PUT /api/departments/:id request whose body has no hod field
\* changes no user record and keeps the department's hod.
C20_NoHodFieldKeepsUsers ==
    \A u \in {"admin", "hod1", "t1"}, id \in DOMAIN departments, b \in DeptUpdates :
        ~IsDefined(b.hod) =>
            LET r == PutDepartment(u, id, b)
            IN  /\ r.users = users
                /\ r.departments[id].hod = departments[id].hod

\* the targeting of C12: all users, a role set with Student, the student's
\* department, or one of the student's groups
TargetsStudent(n, u) ==
    \/ n.targetType = "all"
    \/ n.targetType = "role" /\ "Student" \in Range(n.targetRoles)
    \/ n.targetType = "department" /\ n.department = users[u].department
    \/ n.targetType = "group" /\ Range(n.groups) \cap users[u].groups # {}

\* C12: for a Student, pagination.total of GET /api/notices is the number
\* of active, unexpired notices that target that student.
C12_StudentTotal ==
    \A u \in UserIds :
        users[u].role = "Student" =>
            GetNotices(u, NoticeQuery(Undefined, Undefined, Undefined, Undefined)).resp.total
                = Cardinality({i \in DOMAIN notices :
                                  /\ notices[i].isActive
                                  /\ Unexpired(notices[i])
                                  /\ TargetsStudent(notices[i], u)})

\* ------------------------------------------------- read-tracking runs
\* Teacher t1 posts notices; Student s1 and Teacher t1 mark single notices
\* and all their notices as read, with markAsRead calls that may fail; t1
\* updates notices.
ReadInit == NoticeInit

ReadCreate ==
    \E body \in {NoticeBody("group", <<>>, None, <<"g1">>),
                 NoticeBody("role", <<"Teacher">>, None, <<>>)} :
        /\ Len(notices) < MaxNotices
        /\ ApplyNotice(PostNotice("t1", body))

ReadMark ==
    \E u \in {"s1", "t1"}, id \in NoticeIds, failed \in BOOLEAN :
        ApplyNotice(MarkRead(u, id, failed))

ReadMarkAll ==
    \E u \in {"s1", "t1"}, failing \in SUBSET (1..Len(notices)) :
        ApplyNotice(MarkAllRead(u, failing))

ReadUpdate ==
    \E u \in {"s1", "t1"}, id \in NoticeIds :
        ApplyNotice(PutNotice(u, id,
            [EmptyNoticeUpdate EXCEPT !.title = Some(<<" ", "c">>),
                                      !.targetType = Some("all"),
                                      !.isActive = Some(FALSE)]))

ReadNext == ReadCreate \/ ReadMark \/ ReadMarkAll \/ ReadUpdate

SpecRead == ReadInit /\ [][ReadNext]_vars

\* C13: markedCount of POST /api/notices/mark-all-read is the number of the
\* user's notices whose markAsRead call succeeded; a failure of one notice
\* does not keep the others from being marked.
C13_MarkedCount ==
    \A u \in {"s1", "t1"}, failing \in SUBSET (1..Len(notices)) :
        LET r == MarkAllRead(u, failing)
            mine == FindByUser(u, FALSE)
        IN  /\ r.resp.markedCount = Cardinality(mine \ failing)
            /\ \A i \in mine \ failing : u \in r.notices[i].readBy

\* request bodies of PUT /api/notices/:id with and without each field
NoticeUpdates ==
    {[title |-> t, content |-> Undefined, priority |-> pr, expiresAt |-> Undefined,
      targetType |-> tt, isActive |-> a] :
        t \in {Undefined, Some(<<" ", "c">>)},
        pr \in {Undefined, Some("high")},
        tt \in {Undefined, Some("all")},
        a \in {Undefined, Some(FALSE)}}

\* the fields of a notice that PUT may not change
NoticeFrame(n) ==
    <<n.targetType, n.targetRoles, n.department, n.groups, n.postedBy,
      n.isActive, n.readBy>>

\* C18: PUT /api/notices/:id changes at most the title, content, priority
\* and expiresAt of a notice; targetType, targetRoles, department, groups,
\* postedBy, isActive and the read records are the same after the request,
\* whatever fields the body contains.
C18_UpdateFrame ==
    \A u \in UserIds, id \in NoticeIds, b \in NoticeUpdates :
        LET r == PutNotice(u, id, b)
        IN  /\ Len(r.notices) = Len(notices)
            /\ \A i \in DOMAIN notices :
                /\ NoticeFrame(r.notices[i]) = NoticeFrame(notices[i])
                /\ i # NoticeIndex(id) => r.notices[i] = notices[i]

\* a notice that had been read was updated by a body that also named
\* targetType and isActive
C18_Witness ==
    /\ resp.op = "PUT /api/notices/:id"
    /\ resp.status = 200
    /\ \E i \in DOMAIN notices :
        /\ notices[i].title = <<"c">>
        /\ notices[i].readBy # {}
        /\ notices[i].targetType # "all"

\* ------------------------------------------------- analytics runs
\* Departments are created and updated as in the department runs, and
\* every user requests the analytics of departments, groups, students and
\* assessments.
AnalyticsDepartment ==
    \E u \in UserIds, id \in DOMAIN departments : Apply(GetAnalytics("department", u, id))

AnalyticsGroup ==
    \E u \in UserIds, id \in GroupIds : Apply(GetAnalytics("group", u, id))

AnalyticsStudent ==
    \E u \in UserIds, id \in {"s1"} : Apply(GetAnalytics("student", u, id))

AnalyticsAssessment ==
    \E u \in UserIds, id \in DOMAIN AssessmentDocs :
        Apply(GetAnalytics("assessment", u, id))

AnalyticsNext ==
    \/ DeptCreate
    \/ DeptUpdate
    \/ AnalyticsDepartment
    \/ AnalyticsGroup
    \/ AnalyticsStudent
    \/ AnalyticsAssessment

SpecAnalytics == DeptInit /\ [][AnalyticsNext]_vars

\* C14: GET /api/analytics/department/:id, /group/:id, /student/:id and
\* /assessment/:id, called by an Admin with the id of an existing record,
\* answer with success and the analytics data, not with a 500 error.
C14_AnalyticsSucceed ==
    \A route \in AnalyticsRoutes :
        \A id \in {i \in Range(DeptIdSeq) \cup GroupIds \cup {"s1"} \cup DOMAIN AssessmentDocs :
                      AnalyticsRecordExists(route, i)} :
            LET r == GetAnalytics(route, "admin", id).resp
            IN  r.status = 200 /\ r.data = {id}

\* ------------------------------------------------- cycle-check runs
\* The Module collection holds any prerequisite graph over up to
\* MaxCycleNodes modules, the first of either department and the others of
\* D1 (the update route stores lists with cycles, see C1 and C5), and
\* checkCircularDependency is called with lists of module ids.
CycleNodes == 1..MaxCycleNodes

\* the lists of up to two distinct modules, in ascending order
SortedLists(S) ==
    {<<>>} \cup {<<x>> : x \in S}
           \cup {<<pair[1], pair[2]>> : pair \in {xy \in S \X S : xy[1] < xy[2]}}

CycleModule(dept, prereqs) ==
    [title |-> <<"a">>, description |-> Undefined, department |-> dept,
     groups |-> <<>>, createdBy |-> "admin", difficulty |-> "beginner",
     estimatedHours |-> Undefined, tags |-> <<>>, prerequisites |-> prereqs,
     sortOrder |-> 0, isActive |-> TRUE, questions |-> <<>>, notes |-> <<>>]

CycleInit ==
    /\ InitWorld
    /\ assessed = {}
    /\ \E d \in Depts, lists \in [CycleNodes -> SortedLists(CycleNodes)] :
        modules = [m \in CycleNodes |->
                      CycleModule(IF m = 1 THEN d ELSE "D1", lists[m])]
    /\ notices = <<>>
    /\ now = 0
    /\ resp = NoResponse
    /\ NoStatistics
    /\ NoFrontend

\* the lists of module ids of a call: every list of up to two ids, and
\* every list of three ids of the first three modules
CycleInputs == SeqsUpTo(CycleNodes, 2) \cup [1..3 -> 1..3]

\* one call; the response records the outcome as the update route answers it
CycleCheck ==
    \E d \in Depts, ids \in {<<>>, <<1>>, <<2, 1>>, <<1, 2, 3>>} :
        /\ resp' = IF checkCircularDependency(d, ids)
                   THEN Response("checkCircularDependency", 400, CIRCULAR, {})
                   ELSE Response("checkCircularDependency", 200, "", {})
        /\ UNCHANGED <<world, modules, notices, now, statistics, frontend>>

CycleNext == CycleCheck

SpecCycle == CycleInit /\ [][CycleNext]_vars

\* the nodes of C15 reachable from m in n or fewer steps, at least one,
\* along stored prerequisites between nodes
RECURSIVE NodesWithin(_, _, _)
NodesWithin(nodes, m, n) ==
    IF n = 0 THEN {}
    ELSE LET near == NodesWithin(nodes, m, n - 1)
             next(k) == Range(modules[k].prerequisites) \cap nodes
         IN  near \cup next(m) \cup UNION {next(k) : k \in near}

GraphHasCycle(nodes) ==
    \E m \in nodes : m \in NodesWithin(nodes, m, Cardinality(nodes))

\* C15: checkCircularDependency(departmentId, moduleIds) returns true
\* exactly when the graph whose nodes are the modules of the department
\* with an id in moduleIds, and whose edges are their stored prerequisites,
\* contains a cycle; it returns false for the empty list and for a graph
\* without cycles, also when a module is reachable along two paths.
C15_CycleCheckExact ==
    /\ \A d \in Depts, ids \in CycleInputs :
        checkCircularDependency(d, ids) <=> GraphHasCycle(CycleDocs(d, ids))
    /\ \A d \in Depts : ~checkCircularDependency(d, <<>>)

\* a call was answered without a cycle on a graph in which module 3 is
\* reachable from module 1 directly and through module 2
C15_Witness ==
    /\ resp.op = "checkCircularDependency"
    /\ resp.status = 200
    /\ modules[1].prerequisites = <<2, 3>>
    /\ modules[2].prerequisites = <<3>>
    /\ modules[3].prerequisites = <<>>
    /\ modules[1].department = "D1"

\* C16: every prerequisite of an active module is itself an active module
\* of the same department and is not the module itself.
C16_PrerequisitesValid ==
    \A m \in DOMAIN modules :
        modules[m].isActive =>
            \A k \in Range(modules[m].prerequisites) :
                /\ k \in DOMAIN modules
                /\ k # m
                /\ modules[k].isActive
                /\ modules[k].department = modules[m].department

\* ------------------------------------------------- question and note runs
\* The Admin creates one module in D1 and adds and removes questions and
\* notes.  Question q1 and note n1 are active items of D1; q2 and n2 are
\* active items of D1, inactive items of D1 or active items of D2; q9 and
\* n9 are ids of no document.
ItemStates ==
    {[department |-> "D1", isActive |-> TRUE],
     [department |-> "D1", isActive |-> FALSE],
     [department |-> "D2", isActive |-> TRUE]}

QuestionRequests == SeqsUpTo(QuestionIds \cup {"q9"}, MaxItems)
NoteRequests == SeqsUpTo(NoteIds \cup {"n9"}, MaxItems)

ItemInit ==
    /\ users = InitUsers
    /\ departments = InitDepartments
    /\ groups = InitGroups
    /\ \E q \in ItemStates :
        questions = [InitQuestions EXCEPT !["q2"] = q]
    /\ \E n \in ItemStates :
        notes = [InitNotes EXCEPT !["n2"] = n]
    /\ assessed = {}
    /\ modules = <<>>
    /\ notices = <<>>
    /\ now = 0
    /\ resp = NoResponse
    /\ NoStatistics
    /\ NoFrontend

ItemCreate ==
    /\ modules = <<>>
    /\ Apply(PostModule("admin", CreateBody(<<"a">>, "D1", <<>>, <<>>, <<>>)))

ItemAddQuestions == \E ids \in QuestionRequests : Apply(PostQuestions("admin", 1, ids))

ItemRemoveQuestion ==
    \E q \in QuestionIds \cup {"q9"} : Apply(DeleteQuestion("admin", 1, q))

ItemAddNotes == \E ids \in NoteRequests : Apply(PostNotes("admin", 1, ids))

ItemRemoveNote == \E n \in NoteIds \cup {"n9"} : Apply(DeleteNote("admin", 1, n))

ItemNext ==
    \/ ItemCreate
    \/ ItemAddQuestions
    \/ ItemRemoveQuestion
    \/ ItemAddNotes
    \/ ItemRemoveNote

SpecItems == ItemInit /\ [][ItemNext]_vars

\* an item list without a repeated id whose items are active documents of
\* the department
ItemsValid(list, docs, dept) ==
    /\ Cardinality(Range(list)) = Len(list)
    /\ \A x \in Range(list) :
        x \in DOMAIN docs /\ docs[x].isActive /\ docs[x].department = dept

\* a request list that must be refused: an unknown, inactive,
\* other-department or repeated id, or only ids already in the list
ItemsRefused(ids, list, docs, dept) ==
    \/ ~ItemsValid(ids, docs, dept)
    \/ Range(ids) \subseteq Range(list)

\* C17: a module's question list and note list contain no id twice and only
\* items that are active and of the module's department; an add request
\* naming an unknown, inactive, other-department or repeated id, or only
\* ids already in the module, is answered 400 and leaves the lists
\* unchanged.
C17_ItemLists ==
    \A m \in DOMAIN modules :
        /\ ItemsValid(modules[m].questions, questions, modules[m].department)
        /\ ItemsValid(modules[m].notes, notes, modules[m].department)
        /\ \A ids \in QuestionRequests :
            ItemsRefused(ids, modules[m].questions, questions, modules[m].department) =>
                LET r == PostQuestions("admin", m, ids)
                IN  r.resp.status = 400 /\ r.modules = modules
        /\ \A ids \in NoteRequests :
            ItemsRefused(ids, modules[m].notes, notes, modules[m].department) =>
                LET r == PostNotes("admin", m, ids)
                IN  r.resp.status = 400 /\ r.modules = modules

\* the module holds two questions and a note, and a request that named an
\* id already in the module was refused
C17_Witness ==
    /\ Len(modules) = 1
    /\ Len(modules[1].questions) = 2
    /\ Len(modules[1].notes) = 1
    /\ resp.status = 400
    /\ resp.error = "All specified questions are already in the module"

\* ------------------------------------------------- median runs
\* calculateMedian is called with every list of one to MaxNumbers numbers,
\* and every user requests the analytics of the assessment, which has no
\* submission.
NumberInputs == {Rat(0, 1), Rat(1, 1), Rat(5, 2), Rat(4, 1)}

MedianLists == SeqsUpTo(NumberInputs, MaxNumbers) \ {<<>>}

MedianInit ==
    /\ InitWorld
    /\ assessed = {}
    /\ modules = <<>>
    /\ notices = <<>>
    /\ now = 0
    /\ resp = NoResponse
    /\ submissions = <<>>
    /\ numbers \in MedianLists
    /\ NoFrontend

\* one call; the response records the value returned
MedianCall ==
    LET r == calculateMedian(numbers)
    IN  /\ numbers' = r.numbers
        /\ resp' = [Response("calculateMedian", 200, "", {}) EXCEPT
                        !.medianScore = Some(r.value)]
        /\ UNCHANGED <<world, modules, notices, now, submissions, frontend>>

MedianNext ==
    \/ MedianCall
    \/ AnalyticsAssessment

SpecMedian == MedianInit /\ [][MedianNext]_vars

\* the arrangements of a list in ascending numeric order
AscendingArrangements(list) ==
    LET n == Len(list)
        arranged == {[i \in 1..n |-> list[p[i]]] : p \in Permutations(1..n)}
    IN  {a \in arranged : \A i \in 1..(n - 1) : RatLeq(a[i], a[i + 1])}

\* the median of a list as the statement defines it
IsMedianOf(value, list) ==
    LET n == Len(list)
    IN  \A a \in AscendingArrangements(list) :
            IF n % 2 = 1
            THEN RatEq(value, a[(n + 1) \div 2])
            ELSE RatEq(value, RatMean(a[n \div 2], a[n \div 2 + 1]))

\* calculateMedian returns the median and leaves its argument as it was
MedianExact ==
    \A list \in MedianLists :
        LET r == calculateMedian(list)
        IN  IsMedianOf(r.value, list) /\ r.numbers = list

\* an assessment without submissions is reported with a medianScore of 0
\* to every user with access to its analytics
MedianOfNone ==
    \A u \in UserIds, id \in DOMAIN AssessmentDocs :
        (SubmittedOf(id) = <<>> /\ AnalyticsAccess("assessment", u, id)) =>
            GetAnalytics("assessment", u, id).resp.medianScore = Some(Rat(0, 1))

\* C21: calculateMedian returns, for every non-empty list of numbers, the
\* middle element of the list in ascending numeric order when the length
\* is odd and the mean of the two middle elements when it is even, and
\* leaves the list unmodified; the assessment overview reports a
\* medianScore of 0 when there are no submissions.
C21_MedianExact ==
    /\ MedianExact
    /\ MedianOfNone

\* ------------------------------------------------- distribution runs
\* The AssessmentSubmission collection holds up to MaxSubmissions
\* submissions of assessment a1 (24 points), submitted or in progress, with
\* scores from 0 to the total and one above it; the score distribution is
\* computed and every user requests the analytics of the assessment.
SubmissionInputs ==
    {[assessment |-> "a1", status |-> st, totalScore |-> sc] :
        st \in {"submitted", "in_progress"}, sc \in {0, 5, 12, 24, 30}}

DistributionInit ==
    /\ InitWorld
    /\ assessed = {}
    /\ modules = <<>>
    /\ notices = <<>>
    /\ now = 0
    /\ resp = NoResponse
    /\ submissions \in SeqsUpTo(SubmissionInputs, MaxSubmissions)
    /\ numbers = <<>>
    /\ NoFrontend

\* the score distribution step of the handler; the response records it
DistributionCount ==
    \E id \in DOMAIN AssessmentDocs :
        /\ resp' = [Response("scoreDistribution", 200, "", {id}) EXCEPT
                        !.scoreDistribution = scoreDistribution(id)]
        /\ UNCHANGED <<world, modules, notices, now, statistics, frontend>>

DistributionNext ==
    \/ DistributionCount
    \/ AnalyticsAssessment

SpecDistribution == DistributionInit /\ [][DistributionNext]_vars

\* the percentage lies between 0 and 100 inclusive
IsPercentage(p) == RatLeq(Rat(0, 1), p) /\ RatLeq(p, Rat(100, 1))

\* C22: in the assessment analytics every submission whose score
\* percentage lies between 0 and 100 inclusive is counted in exactly one
\* of the five score ranges, so that the five counts add up to the number
\* of submissions when every percentage lies between 0 and 100.
C22_DistributionComplete ==
    \A id \in DOMAIN AssessmentDocs :
        LET subs == SubmittedOf(id)
            dist == scoreDistribution(id)
            pct(i) == Percentage(subs[i], id)
        IN  /\ \A i \in DOMAIN subs :
                IsPercentage(pct(i)) =>
                    Cardinality({r \in DOMAIN scoreRanges :
                                    InRange(pct(i), scoreRanges[r])}) = 1
            /\ (\A i \in DOMAIN subs : IsPercentage(pct(i))) =>
                    dist[1] + dist[2] + dist[3] + dist[4] + dist[5] = Len(subs)

\* ------------------------------------------------- auth runs
\* The page is loaded with the localStorage an earlier visit left: no
\* session, or the three keys of a session.  After the mount check the
\* user calls login, register, logout and refreshProfile in any order, up
\* to MaxCalls of them in progress at once, and each request succeeds or
\* fails.
backend == <<world, modules, notices, now, resp, statistics>>

AuthInit ==
    /\ InitWorld
    /\ assessed = {}
    /\ modules = <<>>
    /\ notices = <<>>
    /\ now = 0
    /\ resp = NoResponse
    /\ NoStatistics
    /\ localStorage \in {EmptyStorage} \cup {StoreSession(sess) : sess \in Sessions}
    /\ state = initialState(localStorage)
    /\ calls = [NoCalls EXCEPT !["mount"] = 1]

Mount == CheckAuthStatus /\ UNCHANGED backend

MountResolved == CheckAuthResolved /\ UNCHANGED backend

MountRejected == CheckAuthRejected /\ UNCHANGED backend

Login == AuthStart("login") /\ UNCHANGED backend

LoginResolved == AuthResolved("login") /\ UNCHANGED backend

LoginRejected == AuthRejected("login") /\ UNCHANGED backend

Register == AuthStart("register") /\ UNCHANGED backend

RegisterResolved == AuthResolved("register") /\ UNCHANGED backend

RegisterRejected == AuthRejected("register") /\ UNCHANGED backend

Logout ==
    /\ calls["mount"] = 0
    /\ logout
    /\ UNCHANGED calls
    /\ UNCHANGED backend

Refresh == RefreshStart /\ UNCHANGED backend

RefreshProfileResolved == RefreshResolved /\ UNCHANGED backend

RefreshProfileRejected == RefreshRejected /\ UNCHANGED backend

AuthNext ==
    \/ Mount
    \/ MountResolved
    \/ MountRejected
    \/ Login
    \/ LoginResolved
    \/ LoginRejected
    \/ Register
    \/ RegisterResolved
    \/ RegisterRejected
    \/ Logout
    \/ Refresh
    \/ RefreshProfileResolved
    \/ RefreshProfileRejected

SpecAuth == AuthInit /\ [][AuthNext]_vars

\* no mount check, login, register or refreshProfile call is in progress
NoCallInProgress == \A k \in CallKinds : calls[k] = 0

\* C23: whenever no mount check, login, register or refreshProfile call is
\* in progress, the token of the auth context and the 'token' entry of
\* localStorage agree (both absent, or both the same value); a user whom
\* the context reports as not authenticated has no token in localStorage.
C23_TokenAgrees ==
    NoCallInProgress =>
        /\ state.token = localStorage.token
        /\ ~state.isAuthenticated => localStorage.token = None

====
